---- MODULE Spec2Model ----
(***************************************************************************)
(* RealtyLens: the daily extraction pipeline (partition checker, paginated *)
(* listing extractor, the daily DAG's branch wiring) and the batch rent    *)
(* predictor, as state machines translated from the Python sources.        *)
(*                                                                         *)
(*   SpecExtract  one task instance of extract_daily_property_data         *)
(*                (extract_property_data with its retries), against an API *)
(*                that may answer anything and a bucket whose put_object   *)
(*                may fail.                                                *)
(*   SpecDaily    runs of the realtylens_daily DAG: the branch task and    *)
(*                the scheduling of what is downstream of it.              *)
(*   SpecPipeline SpecDaily together with the steps of the extraction task *)
(*                (which no run of the DAG as wired ever starts).          *)
(*   SpecPredict  runs of predict_rent_prices against the warehouse.       *)
(*   SpecFeatures the feature steps of predict_rent_prices: the frame it   *)
(*                passes to the model, for a manifest and listings.        *)
(*   SpecTrain    calls of train_rent_price_model on a feature store.      *)
(*   SpecWeekly   runs of the realtylens_weekly DAG.                       *)
(***************************************************************************)
EXTENDS Integers, Sequences, FiniteSets, TLC

(***************************************************************************)
(* Bounds of the model.                                                    *)
(***************************************************************************)
\* Run dates are 1..MaxDate (days counted from the DAG's start_date).
MaxDate == 2

Dates == 1..MaxDate

(***************************************************************************)
(* Program constants.                                                      *)
(***************************************************************************)
\* fetch_listings(..., max_calls=20)
max_calls == 20
\* params["limit"]
limit == 500
\* default_args["retries"]
retries == 3

bucket == "raw-property-data-jem"
None == [py |-> "None"]

VARIABLES
  \* ---- the platform: Airflow Variables and the S3 bucket
  airflowVars,    \* Variable name -> "set" | "empty" | "unset"
  s3,             \* object key -> body, for the keys that hold an object
  writes,         \* object key -> number of put_object calls that succeeded
  \* ---- the DAG run
  ds,             \* the run's {{ ds }}
  ti,             \* task_id -> state of the task instance
  try_number,     \* task_id -> attempts started
  prev_ti,        \* task_id -> state in the previous DAG run ("no_run": there is none)
  run_no,         \* DAG runs started so far
  \* ---- check_existing_data
  sales_objects,  \* the response of list_objects_v2 for sales_prefix
  rental_objects, \* the response of list_objects_v2 for rental_prefix
  branch,         \* what check_existing_data returned in this attempt, or "none"
  xcom,           \* the XComs of the branch task instance
  \* ---- extract_property_data / RentcastExtractor
  pc,             \* position in extract_property_data
  endpoint_type,  \* fetch_listings' endpoint_type
  api_calls,      \* fetch_listings' api_calls
  offset,         \* params["offset"]
  all_listings,   \* fetch_listings' all_listings, as a sequence of pages
  api_log,        \* what the API saw and answered in this fetch_listings call
  loop_exit,      \* how the while loop of this fetch_listings call was left
  fetched,        \* endpoint_type -> the list fetch_listings returned
  results,        \* run_extraction's results dict
  error,          \* the exception the task's callable raised, or "none"
  \* ---- the warehouse
  registry,       \* the rows of model_registry
  available_columns, \* the columns of model_registry
  fct,            \* the rows of FCT_SALE_LISTING
  pred,           \* the rows of PREDICTED_RENT_PRICES, a bag
  \* ---- predict_rent_prices
  ppc,            \* position in predict_rent_prices
  model_version,  \* predict_rent_prices' model_version: {} is None
  max_load_date,  \* predict_rent_prices' max_load_date: {} before the query
  records,        \* the records to insert, a list
  batch_i,        \* the batch loop's i
  outcome,        \* what the last call returned, or "raised"
  predict_runs,   \* calls of predict_rent_prices so far
  reruns,         \* calls that ended since FCT_SALE_LISTING last changed
  \* ---- train_rent_price_model
  feature_store,  \* df_map: the rows of the feature store, a list
  df_modeling,    \* the trainer's df, then df_modeling: a list of rows
  numerical,      \* the trainer's list `numerical`, as a set
  tpc,            \* position in train_rent_price_model
  train_outcome,  \* how the last call ended, or "none"
  train_runs,     \* calls of train_rent_price_model so far
  \* ---- predict_rent_prices, the feature frame
  feature_info,   \* the manifest loaded with the model
  X_pred,         \* the frame X_pred: its columns, and column -> its cells
  X_pred_model,   \* the frame passed to model.predict
  fpc,            \* position in the feature steps of predict_rent_prices
  \* ---- the realtylens_weekly DAG
  weekly,         \* the DAG runs created, by week: task_id -> task instance
  raw_tables      \* the load_date of the raw tables the weekly loader replaces

fetchVars == <<endpoint_type, api_calls, offset, all_listings, api_log, loop_exit>>
extractVars == <<pc, fetchVars, fetched, results>>
storeVars == <<s3, writes>>
taskVars == <<ds, ti, try_number>>
runVars == <<prev_ti, run_no>>
checkVars == <<sales_objects, rental_objects, branch, xcom>>
dagVars == <<runVars, checkVars>>
warehouseVars == <<registry, available_columns, fct, pred>>
predictorVars == <<ppc, model_version, max_load_date, records, batch_i, outcome, predict_runs, reruns>>
predictVars == <<warehouseVars, predictorVars>>
trainVars == <<feature_store, df_modeling, numerical, tpc, train_outcome, train_runs>>
frameVars == <<feature_info, X_pred, X_pred_model, fpc>>
mlVars == <<trainVars, frameVars>>
weeklyVars == <<weekly, raw_tables>>
vars == <<airflowVars, storeVars, taskVars, dagVars, extractVars, error, predictVars, mlVars,
          weeklyVars>>

(***************************************************************************)
(* Object keys.  A key is the sequence of its "/"-separated segments; the  *)
(* date segment "date=<ds>" is the record [date |-> ds].  Dates are        *)
(* fixed-width ISO strings, so a string prefix ending in "date=<ds>"       *)
(* matches exactly the keys whose date segment is that of ds.              *)
(***************************************************************************)
ListingTypes == {"sales", "rental"}

\* f"{listing_type}_listing"
ListingDirOfEndpoint(listing_type) ==
  IF listing_type = "sales" THEN "sale_listing" ELSE "rental_listing"
ListingDir(listing_type) ==
  IF listing_type = "sales" THEN "sales_listing" ELSE "rental_listing"

\* prefix = f"{listing_type}_listing/{state}/{city}/date={extract_date}"
Prefix(listing_type, state, city, extract_date) ==
  <<ListingDir(listing_type), state, city, [date |-> extract_date]>>

\* key = f"{prefix}/listings.json"
Key(listing_type, state, city, extract_date) ==
  Prefix(listing_type, state, city, extract_date) \o <<"listings.json">>

\* s3_path = f"s3://{self.bucket}/{key}"
S3Path(key) == [bucket |-> bucket, key |-> key]

AllKeys == {Key(t, "PA", "Philadelphia", d) : t \in ListingTypes, d \in Dates}

HasPrefix(key, prefix) ==
  /\ Len(prefix) <= Len(key)
  /\ SubSeq(key, 1, Len(prefix)) = prefix

\* list_objects_v2(Bucket, Prefix): the response has 'Contents' iff some key matches
ListObjectsV2(prefix) == {k \in DOMAIN s3 : HasPrefix(k, prefix)}

(***************************************************************************)
(* Listings.  A page is [offset |-> o, n |-> n]: the n items, in response  *)
(* order, of the response to the request with that offset.  A listing list *)
(* is a sequence of non-empty pages; extend() appends a page.              *)
(***************************************************************************)
RECURSIVE NumItems(_)
NumItems(pages) ==
  IF pages = <<>> THEN 0 ELSE pages[1].n + NumItems(Tail(pages))

\* A body that landed before the runs modelled here.
LandedBody == <<[offset |-> 0, n |-> 1]>>

(***************************************************************************)
(* The API.  A response is a status and a body; the body is a bare array   *)
(* ("list"), an object with a "listings" array ("dict"), an object without *)
(* it ("dict_nokey"), or something response.json() or data.get cannot      *)
(* handle ("invalid").  "raise" is requests.get raising.                   *)
(***************************************************************************)
PageSizes == {0, 1, limit - 1, limit}

Responses ==
       {[kind |-> "raise", status |-> 0, shape |-> "none", n |-> 0]}
  \cup {[kind |-> "response", status |-> 500, shape |-> "none", n |-> 0]}
  \cup {[kind |-> "response", status |-> 200, shape |-> "invalid", n |-> 0]}
  \cup {[kind |-> "response", status |-> 200, shape |-> "dict_nokey", n |-> 0]}
  \cup {[kind |-> "response", status |-> 200, shape |-> sh, n |-> n] :
          sh \in {"list", "dict"}, n \in PageSizes}

\* listings = data if isinstance(data, list) else data.get('listings', [])
ListingsOf(resp) ==
  IF resp.shape \in {"list", "dict"} THEN resp.n ELSE 0

(***************************************************************************)
(* Airflow Variables.  Variable.get raises KeyError for a variable that is *)
(* not set; an empty value is falsy.                                       *)
(***************************************************************************)
AwsVariables == {"AWS_ACCESS_KEY_ID", "AWS_SECRET_ACCESS_KEY", "AWS_DEFAULT_REGION"}
ExtractorVariables == {"RENTCAST_API_KEY"} \cup AwsVariables

AllSet == [v \in ExtractorVariables |-> "set"]

\* Every variable set, or exactly one of them empty or unset.
VariableConfigs ==
  {AllSet} \cup {[AllSet EXCEPT ![v] = x] : v \in ExtractorVariables, x \in {"empty", "unset"}}

\* The exception the Variable.get calls and the all([...]) test raise over
\* the variables `names`, or "none".
CredentialErrorUnsetOnly(names) ==
  IF \E v \in names : airflowVars[v] = "unset" THEN "KeyError" ELSE "none"
CredentialError(names) ==
  IF \E v \in names : airflowVars[v] = "unset" THEN "KeyError"
  ELSE IF \E v \in names : airflowVars[v] = "empty" THEN "ValueError"
  ELSE "none"

(***************************************************************************)
(* The daily DAG: its task ids, its dependencies, its trigger rules.       *)
(* transform_daily_property_data is the DbtTaskGroup, taken as one node.   *)
(***************************************************************************)
CheckTask == "check_existing_daily_property_data"
ExtractTask == "extract_daily_property_data"
CreateSchemaTask == "create_snowflake_schema"
SetupStagesTask == "setup_snowflake_stages"
RefreshStagesTask == "refresh_snowflake_stages"
LoadDataTask == "load_raw_daily_property_data_from_s3_to_snowflake"
TransformTask == "transform_daily_property_data"
PredictTask == "predict_rent_prices"

TaskIds == {CheckTask, ExtractTask, CreateSchemaTask, SetupStagesTask,
            RefreshStagesTask, LoadDataTask, TransformTask, PredictTask}

\* check_data >> [create_schema, extract_data]; extract_data >> create_schema;
\* create_schema >> setup_stages >> refresh_stages >> load_data >> transform_data >> predict_rent
Upstream(t) ==
  CASE t = CheckTask -> {}
    [] t = ExtractTask -> {CheckTask}
    [] t = CreateSchemaTask -> {CheckTask, ExtractTask}
    [] t = SetupStagesTask -> {CreateSchemaTask}
    [] t = RefreshStagesTask -> {SetupStagesTask}
    [] t = LoadDataTask -> {RefreshStagesTask}
    [] t = TransformTask -> {LoadDataTask}
    [] t = PredictTask -> {TransformTask}

Downstream(t) == {u \in TaskIds : t \in Upstream(u)}

\* Every task downstream of t, directly or not.
RECURSIVE FlatDownstreamFrom(_, _)
FlatDownstreamFrom(frontier, seen) ==
  LET next == UNION {Downstream(t) : t \in frontier} \ seen IN
  IF next = {} THEN seen ELSE FlatDownstreamFrom(next, seen \cup next)
FlatDownstream(t) == FlatDownstreamFrom({t}, {})

\* trigger_rule='none_failed_or_skipped' is the older name of none_failed_min_one_success
TriggerRule(t) ==
  IF t = CreateSchemaTask THEN "none_failed_min_one_success" ELSE "all_success"

(***************************************************************************)
(* RentcastExtractor.fetch_listings                                        *)
(***************************************************************************)
StartFetch(endpoint) ==
  /\ endpoint_type' = endpoint
  /\ api_calls' = 0
  /\ offset' = 0
  /\ all_listings' = <<>>
  /\ api_log' = <<>>
  /\ loop_exit' = "none"

\* return all_listings, after the loop was left by `how`
FetchReturnsNothingOnError(how, listings) ==
  /\ loop_exit' = how
  /\ fetched' = (endpoint_type :> IF how = "api_error" THEN <<>> ELSE listings) @@ fetched
  /\ pc' = "fetched"
FetchReturns(how, listings) ==
  /\ loop_exit' = how
  /\ fetched' = (endpoint_type :> listings) @@ fetched
  /\ pc' = "fetched"

\* all_listings.extend(listings)
Extend(listings, page) == Append(listings, page)

\* if len(listings) < params['limit']
\* params['offset'] += params['limit'], the last statement of a loop
\* iteration that received a full page; the first is a variant that counts
\* pages instead of items.
NextOffsetByPage(o) == o + 1
NextOffset(o) == o + limit

IsLastPageOrFull(n) == n <= limit
IsLastPage(n) == n < limit

\* while api_calls < max_calls
WithinBudgetOffByOne == api_calls <= max_calls
WithinBudget == api_calls < max_calls

\* One iteration of the while loop.
FetchCall ==
  /\ pc = "fetch"
  /\ WithinBudget
  /\ \E resp \in Responses :
       LET n == ListingsOf(resp)
           parsed == resp.kind = "response" /\ resp.status = 200 /\ resp.shape # "invalid"
           entry == [offset |-> offset, status |-> resp.status,
                     items |-> IF parsed THEN n ELSE -1]
           page == [offset |-> offset, n |-> n]
       IN
       /\ api_log' = Append(api_log, entry)
       /\ IF resp.kind = "raise"
          THEN \* requests.get raised: except Exception: break
               /\ FetchReturns("exception", all_listings)
               /\ UNCHANGED <<api_calls, offset, all_listings, endpoint_type>>
          ELSE
            /\ api_calls' = api_calls + 1
            /\ endpoint_type' = endpoint_type
            /\ IF resp.status # 200
               THEN /\ FetchReturns("api_error", all_listings)
                    /\ UNCHANGED <<offset, all_listings>>
               ELSE IF resp.shape = "invalid"
               THEN \* response.json() or data.get raised: except Exception: break
                    /\ FetchReturns("exception", all_listings)
                    /\ UNCHANGED <<offset, all_listings>>
               ELSE IF n = 0
               THEN \* if not listings: break
                    /\ FetchReturns("no_more", all_listings)
                    /\ UNCHANGED <<offset, all_listings>>
               ELSE IF IsLastPage(n)
               THEN /\ all_listings' = Extend(all_listings, page)
                    /\ FetchReturns("last_page", all_listings')
                    /\ UNCHANGED offset
               ELSE /\ all_listings' = Extend(all_listings, page)
                    /\ offset' = NextOffset(offset)
                    /\ UNCHANGED <<loop_exit, fetched, pc>>
  /\ UNCHANGED <<airflowVars, weeklyVars, mlVars, predictVars, dagVars, storeVars, taskVars, results, error>>

\* The while condition fails: the call budget is used up.
FetchLoopExit ==
  /\ pc = "fetch"
  /\ ~WithinBudget
  /\ FetchReturns("budget", all_listings)
  /\ UNCHANGED <<airflowVars, weeklyVars, mlVars, predictVars, dagVars, storeVars, taskVars, results, error,
                 endpoint_type, api_calls, offset, all_listings, api_log>>

(***************************************************************************)
(* RentcastExtractor.save_to_s3 and run_extraction                         *)
(***************************************************************************)
ListingTypeOf(endpoint) == IF endpoint = "sale" THEN "sales" ELSE "rental"
ResultKeyOf(endpoint) == IF endpoint = "sale" THEN "sales_path" ELSE "rental_path"

\* if listings: results[...] = self.save_to_s3(...)
SaveListings ==
  /\ pc = "fetched"
  /\ LET listings == fetched[endpoint_type]
         key == Key(ListingTypeOf(endpoint_type), "PA", "Philadelphia", ds)
     IN
     \/ /\ listings = <<>>
        /\ UNCHANGED <<s3, writes, results>>
     \/ /\ listings # <<>>       \* put_object succeeded
        /\ s3' = (key :> listings) @@ s3
        /\ writes' = [writes EXCEPT ![key] = @ + 1]
        /\ results' = (ResultKeyOf(endpoint_type) :> S3Path(key)) @@ results
     \/ /\ listings # <<>>       \* put_object raised: except Exception: return None
        /\ UNCHANGED <<s3, writes>>
        /\ results' = (ResultKeyOf(endpoint_type) :> None) @@ results
  /\ pc' = "saved"
  /\ UNCHANGED <<airflowVars, weeklyVars, mlVars, predictVars, dagVars, taskVars, fetchVars, fetched, error>>

\* run_extraction goes on: the rental fetch after the sale save, `return
\* results` after the rental save.
RunExtractionNext ==
  /\ pc = "saved"
  /\ IF endpoint_type = "sale"
     THEN /\ StartFetch("rental/long-term")
          /\ pc' = "fetch"
     ELSE /\ pc' = "collected"
          /\ UNCHANGED fetchVars
  /\ UNCHANGED <<airflowVars, weeklyVars, mlVars, predictVars, dagVars, storeVars, taskVars, fetched, results, error>>

(***************************************************************************)
(* extract_property_data                                                   *)
(***************************************************************************)
ExtractStart ==
  /\ ti[ExtractTask] = "running"
  /\ pc = "start"
  /\ IF CredentialError(ExtractorVariables) # "none"
     THEN /\ error' = CredentialError(ExtractorVariables)
          /\ pc' = "raised"
          /\ UNCHANGED <<fetchVars, fetched, results>>
     ELSE /\ StartFetch("sale")
          /\ fetched' = <<>>
          /\ results' = <<>>
          /\ error' = "none"
          /\ pc' = "fetch"
  /\ UNCHANGED <<airflowVars, weeklyVars, mlVars, predictVars, dagVars, storeVars, taskVars>>

\* if not results: raise Exception("Extraction returned no results")
ExtractReturn ==
  /\ pc = "collected"
  /\ IF DOMAIN results = {}
     THEN /\ error' = "Exception"
          /\ pc' = "raised"
     ELSE /\ error' = "none"
          /\ pc' = "returned"
  /\ UNCHANGED <<airflowVars, weeklyVars, mlVars, predictVars, dagVars, storeVars, taskVars, fetchVars, fetched, results>>

(***************************************************************************)
(* The task instance of extract_daily_property_data: the callable's        *)
(* outcome, and the retries of default_args.                               *)
(***************************************************************************)
ExtractTaskSucceeds ==
  /\ ti[ExtractTask] = "running"
  /\ pc = "returned"
  /\ ti' = [ti EXCEPT ![ExtractTask] = "success"]
  /\ pc' = "done"
  /\ UNCHANGED <<airflowVars, weeklyVars, mlVars, predictVars, dagVars, storeVars, ds, try_number, fetchVars, fetched, results, error>>

ExtractTaskFails ==
  /\ ti[ExtractTask] = "running"
  /\ pc = "raised"
  /\ ti' = [ti EXCEPT ![ExtractTask] =
              IF try_number[ExtractTask] <= retries THEN "up_for_retry" ELSE "failed"]
  /\ pc' = "done"
  /\ UNCHANGED <<airflowVars, weeklyVars, mlVars, predictVars, dagVars, storeVars, ds, try_number, fetchVars, fetched, results, error>>

ExtractTaskRetries ==
  /\ ti[ExtractTask] = "up_for_retry"
  /\ ti' = [ti EXCEPT ![ExtractTask] = "running"]
  /\ try_number' = [try_number EXCEPT ![ExtractTask] = @ + 1]
  /\ pc' = "start"
  /\ UNCHANGED <<airflowVars, weeklyVars, mlVars, predictVars, dagVars, storeVars, ds, fetchVars, fetched, results, error>>

(***************************************************************************)
(* check_existing_data                                                     *)
(***************************************************************************)
\* sales_prefix = f"sales_listing/PA/Philadelphia/date={ds}"
sales_prefix(date) == <<"sales_listing", "PA", "Philadelphia", [date |-> date]>>
\* rental_prefix = f"rental_listing/PA/Philadelphia/date={ds}"
rental_prefix(date) == <<"rental_listing", "PA", "Philadelphia", [date |-> date]>>

\* A list_objects_v2 response: it has the key 'Contents' iff a key matched.
NoResponse == [called |-> FALSE, Contents |-> {}]
ListResponse(prefix) == [called |-> TRUE, Contents |-> ListObjectsV2(prefix)]
HasContents(response) == response.Contents # {}

\* if 'Contents' in sales_objects and 'Contents' in rental_objects:
\*     return 'create_schema'
\* else:
\*     return 'extract_data'
CheckDecisionSwapped(sales, rental) ==
  IF HasContents(sales) /\ HasContents(rental) THEN "extract_data" ELSE "create_schema"
CheckDecision(sales, rental) ==
  IF HasContents(sales) /\ HasContents(rental) THEN "create_schema" ELSE "extract_data"

(***************************************************************************)
(* BranchPythonOperator: what it does with the value its callable returns. *)
(* skip_all_except takes the value as a task_id of the DAG: it looks the   *)
(* task up and raises when the DAG has no task of that id; otherwise it    *)
(* skips the tasks directly downstream that are neither the branch nor     *)
(* downstream of it.                                                       *)
(***************************************************************************)
ValidBranch(decision) == decision \in TaskIds

SkippedByBranch(decision) ==
  {t \in Downstream(CheckTask) : t # decision /\ t \notin FlatDownstream(decision)}

\* The state a task instance ends an attempt in when its callable raised.
AfterFailureSucceeds(t) == "success"
AfterFailure(t) == IF try_number[t] <= retries THEN "up_for_retry" ELSE "failed"

\* One attempt of the branch task: enhanced_check_existing_data, which calls
\* check_existing_data and re-raises what it raises, then the operator's
\* skip_all_except.
CheckExistingData ==
  /\ ti[CheckTask] = "running"
  /\ error = "none"
  /\ \E listing \in {"ok", "ClientError"} :
       IF CredentialError(AwsVariables) # "none"
       THEN /\ error' = CredentialError(AwsVariables)
            /\ ti' = [ti EXCEPT ![CheckTask] = AfterFailure(CheckTask)]
            /\ UNCHANGED checkVars
       ELSE IF listing # "ok"
       THEN \* list_objects_v2 raised: except Exception: raise
            /\ error' = listing
            /\ ti' = [ti EXCEPT ![CheckTask] = AfterFailure(CheckTask)]
            /\ UNCHANGED checkVars
       ELSE
         LET sales == ListResponse(sales_prefix(ds))
             rental == ListResponse(rental_prefix(ds))
             decision == CheckDecision(sales, rental)
         IN
         /\ sales_objects' = sales
         /\ rental_objects' = rental
         /\ branch' = decision
         /\ xcom' = IF decision = "create_schema"
                    THEN xcom \cup {[key |-> "extract_date", value |-> ds]}
                    ELSE xcom
         /\ IF ValidBranch(decision)
            THEN /\ error' = "none"
                 /\ ti' = [t \in TaskIds |->
                             IF t = CheckTask THEN "success"
                             ELSE IF t \in SkippedByBranch(decision) THEN "skipped"
                             ELSE ti[t]]
            ELSE /\ error' = "AirflowException"
                 /\ ti' = [ti EXCEPT ![CheckTask] = AfterFailure(CheckTask)]
  /\ UNCHANGED <<airflowVars, weeklyVars, mlVars, predictVars, storeVars, ds, try_number, runVars, extractVars>>

\* A retry of the branch task: a new attempt, its XComs cleared.
CheckTaskRetries ==
  /\ ti[CheckTask] = "up_for_retry"
  /\ ti' = [ti EXCEPT ![CheckTask] = "running"]
  /\ try_number' = [try_number EXCEPT ![CheckTask] = @ + 1]
  /\ sales_objects' = NoResponse
  /\ rental_objects' = NoResponse
  /\ branch' = "none"
  /\ xcom' = {}
  /\ error' = "none"
  /\ UNCHANGED <<airflowVars, weeklyVars, mlVars, predictVars, storeVars, ds, runVars, extractVars>>

(***************************************************************************)
(* The scheduler: a task instance with no state gets one from its trigger  *)
(* rule once its upstream task instances allow it.  depends_on_past: not   *)
(* before the same task of the previous DAG run succeeded or was skipped.  *)
(***************************************************************************)
Failed(t) == ti[t] \in {"failed", "upstream_failed"}
Finished(t) == ti[t] \in {"success", "skipped", "failed", "upstream_failed"}

PastAllows(t) == prev_ti[t] \in {"no_run", "success", "skipped"}

\* The state the trigger rule of t gives it, or "none" while it has to wait.
TriggerOutcomeAllDone(t) ==
  IF \A u \in Upstream(t) : Finished(u) THEN "running" ELSE "none"
TriggerOutcome(t) ==
  LET ups == Upstream(t) IN
  IF \E u \in ups : Failed(u) THEN "upstream_failed"
  ELSE IF TriggerRule(t) = "all_success"
       THEN IF \E u \in ups : ti[u] = "skipped" THEN "skipped"
            ELSE IF \A u \in ups : ti[u] = "success" THEN "running"
            ELSE "none"
       ELSE \* none_failed_min_one_success
            IF \E u \in ups : ~Finished(u) THEN "none"
            ELSE IF \E u \in ups : ti[u] = "success" THEN "running"
            ELSE "skipped"

Schedule(t) ==
  /\ ti[t] = "none"
  /\ PastAllows(t)
  /\ TriggerOutcome(t) # "none"
  /\ ti' = [ti EXCEPT ![t] = TriggerOutcome(t)]
  /\ try_number' = [try_number EXCEPT ![t] = IF TriggerOutcome(t) = "running" THEN 1 ELSE @]
  /\ pc' = IF t = ExtractTask /\ TriggerOutcome(t) = "running" THEN "start" ELSE pc
  /\ UNCHANGED <<airflowVars, weeklyVars, mlVars, predictVars, storeVars, ds, dagVars, fetchVars, fetched, results, error>>

(***************************************************************************)
(* DAG runs.  max_active_runs=1: a run starts when none is running.  A new *)
(* run is the scheduled run of the next day, or the same run cleared.      *)
(***************************************************************************)
\* Bound of the model: the number of DAG runs started.
MaxRuns == 3

RunFinished == \A t \in TaskIds : Finished(t)

StartRun ==
  /\ ti' = [t \in TaskIds |-> "none"]
  /\ try_number' = [t \in TaskIds |-> 0]
  /\ run_no' = run_no + 1
  /\ sales_objects' = NoResponse
  /\ rental_objects' = NoResponse
  /\ branch' = "none"
  /\ xcom' = {}
  /\ error' = "none"
  /\ UNCHANGED <<airflowVars, weeklyVars, mlVars, predictVars, storeVars, extractVars>>

NextScheduledRun ==
  /\ RunFinished
  /\ run_no < MaxRuns
  /\ ds + 1 \in Dates
  /\ ds' = ds + 1
  /\ prev_ti' = ti
  /\ StartRun

ClearedRun ==
  /\ RunFinished
  /\ run_no < MaxRuns
  /\ ds' = ds
  /\ prev_ti' = prev_ti
  /\ StartRun

KeysOf(d) == {Key(t, "PA", "Philadelphia", d) : t \in ListingTypes}

(***************************************************************************)
(* The stages of the daily loader and the files it reads from them.        *)
(***************************************************************************)
\* CREATE STAGE ... URL = 's3://{bucket}/sales_listing/' (rental_listing/)
StageUrl(stage) ==
  IF stage = "aws_sale_listing_stage" THEN <<"sales_listing">> ELSE <<"rental_listing">>

\* FROM @<stage>/PA/Philadelphia/date={ds}/listings.json
StagePath(stage, date) ==
  StageUrl(stage) \o <<"PA", "Philadelphia", [date |-> date], "listings.json">>

\* The keys daily_property_sql reads for a date.
LoaderPaths(date) ==
  {StagePath(stage, date) : stage \in {"aws_sale_listing_stage", "aws_rent_listing_stage"}}

(***************************************************************************)
(* The warehouse: model_registry, FCT_SALE_LISTING, PREDICTED_RENT_PRICES  *)
(***************************************************************************)
\* Bounds of the model: the load dates of FCT_SALE_LISTING are 1..MaxLoad,
\* predict_rent_prices is called at most MaxPredictRuns times.
MaxLoad == 2
MaxPredictRuns == 2

\* batch_size = 1000
batch_size == 1000

\* A SQL value is a set: {} is NULL, {v} is the value v.
NULL == {}

LoadDates == 1..MaxLoad
ListingSKs == {"sk1", "sk2"}
SalePrices == {NULL, {200000}}

\* model_version = datetime.now().strftime("%Y%m%d_%H%M%S"): the versions of
\* the model, in the order of their strings.
Versions == <<"20250301_000000", "20250308_000000">>
VersionSet == {Versions[n] : n \in DOMAIN Versions}
Rank(v) == CHOOSE n \in DOMAIN Versions : Versions[n] = v

\* Bytes and texts are kept as terms <<codec, payload>>: what a codec wrote
\* is read back by the inverse of that codec alone, which raises on anything
\* else.  The result of a decoder is a set: the value, or nothing when it
\* raised.
PickleDumps(object) == <<"pickle", object>>
GzipCompress(data) == <<"gzip", data>>
Bz2Compress(data) == <<"bz2", data>>
B64Encode(data) == <<"b64", data>>
PickleLoads(data) == IF data[1] = "pickle" THEN {data[2]} ELSE {}
GzipDecompress(data) == IF data[1] = "gzip" THEN {data[2]} ELSE {}
Bz2Decompress(data) == IF data[1] = "bz2" THEN {data[2]} ELSE {}
B64Decode(text) == IF text[1] = "b64" THEN {text[2]} ELSE {}

\* The NULL of a column, bytes that are neither compressed nor a pickle, and
\* an object somebody stored.
NullBlob == <<"NULL", <<>>>>
Junk == <<"junk", <<>>>>
AnObject == <<"object", <<>>>>

\* gzip.compress of the pickle, as the trainer writes it; the first is a
\* variant that compresses with bz2.
CompressWithBz2(data) == Bz2Compress(data)
Compress(data) == GzipCompress(data)

\* base64.b64encode(gzip.compress(pickle.dumps(object))).decode('utf-8')
Encode(object) == B64Encode(Compress(PickleDumps(object)))

\* What MODEL_BLOB or FEATURE_INFO holds: NULL, or base64 of a pickle that
\* was compressed with gzip, with bz2 or not at all, or of something that is
\* no pickle.
Blobs ==
  {NullBlob, B64Encode(GzipCompress(PickleDumps(AnObject))),
   B64Encode(Bz2Compress(PickleDumps(AnObject))), B64Encode(PickleDumps(AnObject)),
   B64Encode(Junk)}

\* The blob is as the trainer writes blobs.
AsTrained(blob) == blob = B64Encode(GzipCompress(PickleDumps(AnObject)))

RegistryRows(v) ==
  {[MODEL_VERSION |-> v, MODEL_BLOB |-> b, FEATURE_INFO |-> f, CREATED_AT |-> c] :
     b \in Blobs, f \in Blobs, c \in DOMAIN Versions}

\* model_version VARCHAR(50) PRIMARY KEY; created_at defaults to the time
\* of the insert, so no two rows share it.  The registries of the model: no
\* row; one row whose model or whose manifest is as the trainer writes it
\* (gzip), the other of any kind; or two rows with manifests as the trainer
\* writes them, and one of the models so.
Registries ==
  {{}} \cup {{r} : r \in {x \in RegistryRows(Versions[1]) \cup RegistryRows(Versions[2]) :
                             /\ x.CREATED_AT = 1
                             /\ (AsTrained(x.MODEL_BLOB) \/ AsTrained(x.FEATURE_INFO))}}
       \cup {{p[1], p[2]} : p \in {q \in RegistryRows(Versions[1]) \X RegistryRows(Versions[2]) :
                                        /\ q[1].CREATED_AT # q[2].CREATED_AT
                                        /\ (AsTrained(q[1].MODEL_BLOB) \/ AsTrained(q[2].MODEL_BLOB))
                                        /\ AsTrained(q[1].FEATURE_INFO)
                                        /\ AsTrained(q[2].FEATURE_INFO)}}

RegistryColumns ==
  {{"MODEL_VERSION", "MODEL_BLOB", "FEATURE_INFO", "R2", "CREATED_AT"},
   {"MODEL_VERSION", "MODEL_BLOB", "FEATURE_INFO", "R2"}}

\* listing_sk VARCHAR(255) PRIMARY KEY: the tables a load of date d makes,
\* one row for each listing it holds.
Loads(d) ==
  {{[LISTING_SK |-> sk, SALE_PRICE |-> price[sk], LOAD_DATE |-> d] : sk \in DOMAIN price} :
     price \in UNION {[sks -> SalePrices] : sks \in SUBSET ListingSKs \ {{}}}}

\* A table without a key, where a row may occur more than once.
NoRows == [r \in {} |-> 0]
Rows(table) == DOMAIN table
InsertInto(table, rows) ==
  [r \in Rows(table) \cup {rows[n] : n \in DOMAIN rows} |->
     (IF r \in Rows(table) THEN table[r] ELSE 0)
       + Cardinality({n \in DOMAIN rows : rows[n] = r})]

\* DELETE FROM PREDICTED_RENT_PRICES WHERE LOAD_DATE = '{max_load_date}'
DeleteNothing(table, load_date) == table
DeleteAll(table, load_date) == NoRows
DeleteFrom(table, load_date) ==
  [r \in {x \in Rows(table) : x.LOAD_DATE \notin load_date} |-> table[r]]

\* The rows of a set as a list, in some order.
RECURSIVE ToList(_)
ToList(rows) ==
  IF rows = {} THEN <<>>
  ELSE LET r == CHOOSE x \in rows : TRUE IN <<r>> \o ToList(rows \ {r})

(***************************************************************************)
(* load_model_from_registry                                                *)
(***************************************************************************)
\* for col in ['CREATED_AT', 'MODEL_VERSION']: the first that is available,
\* and MODEL_VERSION when none is
sort_column ==
  IF "CREATED_AT" \in available_columns THEN "CREATED_AT" ELSE "MODEL_VERSION"

\* ORDER BY {sort_column} DESC: what the rows are ordered by
SortKeyByVersion(r) == Rank(r.MODEL_VERSION)
SortKey(r) == IF sort_column = "CREATED_AT" THEN r.CREATED_AT ELSE Rank(r.MODEL_VERSION)

\* model_query: the given version, or the latest one, with a blob
ModelQuery(version) ==
  LET with_blob == {r \in registry : r.MODEL_BLOB # NullBlob} IN
  IF version # {}
  THEN {r \in with_blob : r.MODEL_VERSION \in version}
  ELSE {r \in with_blob : \A q \in with_blob : SortKey(q) <= SortKey(r)}

\* The schemes tried on a blob, in the order of the nested try blocks:
\* gzip.decompress and pickle.loads, bz2.decompress and pickle.loads,
\* pickle.loads of the blob itself.
Schemes == <<"gzip", "bz2", "pickle">>

\* The object a scheme yields from the bytes of a blob, if it does not raise.
Unpack(scheme, data) ==
  IF scheme = "gzip" THEN UNION {PickleLoads(x) : x \in GzipDecompress(data)}
  ELSE IF scheme = "bz2" THEN UNION {PickleLoads(x) : x \in Bz2Decompress(data)}
  ELSE PickleLoads(data)

\* The scheme yields an object from the blob, once base64-decoded.
Yield(scheme, blob) == UNION {Unpack(scheme, data) : data \in B64Decode(blob)}
Unpacks(scheme, blob) == Yield(scheme, blob) # {}

RECURSIVE DecodeFrom(_, _, _)
\* The try of the n-th scheme, after the schemes `tried` raised.
DecodeFrom(n, blob, tried) ==
  IF n > Len(Schemes)
  THEN [raised |-> TRUE, by |-> "none", tried |-> tried, object |-> {}]
  ELSE IF Unpacks(Schemes[n], blob)
       THEN [raised |-> FALSE, by |-> Schemes[n], tried |-> Append(tried, Schemes[n]),
             object |-> Yield(Schemes[n], blob)]
       ELSE DecodeFrom(n + 1, blob, Append(tried, Schemes[n]))

\* A decoding that never tries bz2.
DecodeWithoutBz2(blob) ==
  IF Unpacks("gzip", blob)
  THEN [raised |-> FALSE, by |-> "gzip", tried |-> <<"gzip">>,
        object |-> Yield("gzip", blob)]
  ELSE IF Unpacks("pickle", blob)
       THEN [raised |-> FALSE, by |-> "pickle", tried |-> <<"gzip", "pickle">>,
             object |-> Yield("pickle", blob)]
       ELSE [raised |-> TRUE, by |-> "none", tried |-> <<"gzip", "pickle">>, object |-> {}]

\* Decoding a blob: the scheme that yielded the object and the schemes tried,
\* or that all raised.  base64.b64decode raises on a NULL.
Decode(blob) ==
  IF B64Decode(blob) = {}
  THEN [raised |-> TRUE, by |-> "none", tried |-> <<>>, object |-> {}]
  ELSE DecodeFrom(1, blob, <<>>)

Decodes(blob) == ~Decode(blob).raised

\* What load_model_from_registry raises with.
LoadFailed == [raised |-> TRUE, model_version |-> {}, model |-> {}, feature_info |-> {}]

\* The decoding of the row the query returned: model, manifest and version.
DecodeRow(model_row) ==
  IF Decodes(model_row.MODEL_BLOB) /\ Decodes(model_row.FEATURE_INFO)
  THEN [raised |-> FALSE, model_version |-> {model_row.MODEL_VERSION},
        model |-> Decode(model_row.MODEL_BLOB).object,
        feature_info |-> Decode(model_row.FEATURE_INFO).object]
  ELSE LoadFailed

\* load_model_from_registry: the model, the manifest and the version it
\* returns, or that it raised ValueError.
LoadModelFromRegistry(version) ==
  LET model_data == ModelQuery(version) IN
  IF model_data = {}
  THEN LoadFailed
  ELSE DecodeRow(CHOOSE r \in model_data : TRUE)

(***************************************************************************)
(* predict_rent_prices and simplified_prediction                           *)
(***************************************************************************)
\* SELECT MAX(LOAD_DATE) AS MAX_LOAD_DATE FROM FCT_SALE_LISTING
SelectMaxLoadDate ==
  {d \in LoadDates : (\E l \in fct : l.LOAD_DATE = d) /\ (\A l \in fct : l.LOAD_DATE <= d)}

\* listing_query: WHERE l.SALE_PRICE IS NOT NULL AND l.LOAD_DATE = '{max_load_date}'
ListingQuery(load_date) ==
  {l \in fct : l.SALE_PRICE # NULL /\ l.LOAD_DATE \in load_date}

\* What the model may predict for a listing.
ModelRents == {1500}

\* A row of prediction_results.  The ratio predicted_rent_price / sale_price
\* is kept as the pair of the two.
PredictionRow(l, rent, version) ==
  [LISTING_SK |-> l.LISTING_SK,
   SALE_PRICE |-> l.SALE_PRICE,
   PREDICTED_RENT_PRICE |-> {rent},
   RENT_TO_PRICE_RATIO |-> {<<rent, price>> : price \in l.SALE_PRICE},
   LOAD_DATE |-> l.LOAD_DATE,
   MODEL_VERSION |-> version]

\* l.SALE_PRICE * 0.005: NULL for a NULL price
SimplifiedRent(sale_price) == {(price * 5) \div 1000 : price \in sale_price}

\* The row simple_pred_query selects for a listing.
SimplifiedRow(l) ==
  [LISTING_SK |-> l.LISTING_SK,
   SALE_PRICE |-> l.SALE_PRICE,
   PREDICTED_RENT_PRICE |-> SimplifiedRent(l.SALE_PRICE),
   RENT_TO_PRICE_RATIO |-> {<<5, 1000>>},
   LOAD_DATE |-> l.LOAD_DATE,
   MODEL_VERSION |-> "simplified-model"]

\* simple_pred_query: the listings of the load date for which NOT EXISTS
\* (SELECT 1 FROM PREDICTED_RENT_PRICES p WHERE p.LISTING_SK = l.LISTING_SK)
SimplePredQuery(load_date) ==
  {SimplifiedRow(l) :
     l \in {x \in fct : /\ x.LOAD_DATE \in load_date
                        /\ ~\E p \in Rows(pred) : p.LISTING_SK = x.LISTING_SK}}

PredictorIdle == ppc \in {"idle", "returned", "raised"}

\* The call ends by an exception that leaves predict_rent_prices.
Raise ==
  /\ ppc' = "raised"
  /\ outcome' = "raised"
  /\ reruns' = reruns + 1

Return(value) ==
  /\ ppc' = "returned"
  /\ outcome' = value
  /\ reruns' = reruns + 1

\* predict_rent_prices is called and tries to load the model.
PredictRentPrices ==
  /\ PredictorIdle
  /\ predict_runs < MaxPredictRuns
  /\ \E version \in {{}} \cup {{v} : v \in VersionSet} :
       LET loaded == LoadModelFromRegistry(version) IN
       /\ ppc' = IF loaded.raised THEN "simplified" ELSE "loaded"
       /\ model_version' = IF loaded.raised THEN version ELSE loaded.model_version
  /\ predict_runs' = predict_runs + 1
  /\ max_load_date' = {}
  /\ records' = <<>>
  /\ batch_i' = 0
  /\ outcome' = "none"
  /\ UNCHANGED <<airflowVars, weeklyVars, mlVars, storeVars, taskVars, dagVars, extractVars, error,
                 warehouseVars, reruns>>

\* except Exception: return simplified_prediction(hook, database, schema)
SimplifiedPrediction ==
  /\ ppc = "simplified"
  /\ max_load_date' = SelectMaxLoadDate
  /\ \/ /\ pred' = InsertInto(pred, ToList(SimplePredQuery(SelectMaxLoadDate)))
        /\ Return("Completed simplified rent price prediction")
     \/ \* hook.run raised
        /\ pred' = pred
        /\ Raise
  /\ UNCHANGED <<airflowVars, weeklyVars, mlVars, storeVars, taskVars, dagVars, extractVars, error,
                 registry, available_columns, fct, model_version, records, batch_i, predict_runs>>

\* The model path up to the CREATE TABLE IF NOT EXISTS: the two queries,
\* the features, model.predict and prediction_results.
MakePredictions ==
  /\ ppc = "loaded"
  /\ max_load_date' = SelectMaxLoadDate
  /\ LET listings_df == ListingQuery(SelectMaxLoadDate) IN
     IF listings_df = {}
     THEN /\ Return("No data to process")
          /\ UNCHANGED records
     ELSE \/ \E rent_predictions \in [listings_df -> ModelRents] :
               /\ records' = ToList({PredictionRow(l, rent_predictions[l], CHOOSE v \in model_version : TRUE) : l \in listings_df})
               /\ ppc' = "delete"
               /\ UNCHANGED <<outcome, reruns>>
          \/ \* model.predict raised: except Exception: raise
             /\ Raise
             /\ UNCHANGED records
  /\ UNCHANGED <<airflowVars, weeklyVars, mlVars, storeVars, taskVars, dagVars, extractVars, error,
                 warehouseVars, model_version, batch_i, predict_runs>>

\* 11. Delete existing predictions for this load date
DeleteExisting ==
  /\ ppc = "delete"
  /\ \/ /\ pred' = DeleteFrom(pred, max_load_date)
        /\ ppc' = "insert"
        /\ UNCHANGED <<outcome, reruns>>
     \/ /\ pred' = pred
        /\ Raise
  /\ batch_i' = 0
  /\ UNCHANGED <<airflowVars, weeklyVars, mlVars, storeVars, taskVars, dagVars, extractVars, error,
                 registry, available_columns, fct, model_version, max_load_date,
                 records, predict_runs>>

Min(a, b) == IF a < b THEN a ELSE b

\* for i in range(0, len(records), batch_size): one INSERT of a batch
InsertBatch ==
  /\ ppc = "insert"
  /\ batch_i < Len(records)
  /\ LET batch == SubSeq(records, batch_i + 1, Min(batch_i + batch_size, Len(records))) IN
     \/ /\ pred' = InsertInto(pred, batch)
        /\ batch_i' = batch_i + batch_size
        /\ UNCHANGED <<ppc, outcome, reruns>>
     \/ /\ pred' = pred
        /\ Raise
        /\ UNCHANGED batch_i
  /\ UNCHANGED <<airflowVars, weeklyVars, mlVars, storeVars, taskVars, dagVars, extractVars, error,
                 registry, available_columns, fct, model_version, max_load_date,
                 records, predict_runs>>

\* The loop is over: return f"Successfully predicted rent prices ..."
PredictReturn ==
  /\ ppc = "insert"
  /\ batch_i >= Len(records)
  /\ Return("Successfully predicted rent prices")
  /\ UNCHANGED <<airflowVars, weeklyVars, mlVars, storeVars, taskVars, dagVars, extractVars, error,
                 warehouseVars, model_version, max_load_date, records, batch_i, predict_runs>>

\* Between two calls the pipeline loads a new day into FCT_SALE_LISTING:
\* the listings it holds that day get the new load date, the others stay.
LoadWarehouse ==
  /\ PredictorIdle
  /\ \E d \in LoadDates :
       /\ \A l \in fct : l.LOAD_DATE < d
       /\ \E loaded \in Loads(d) :
            fct' = {l \in fct : \A n \in loaded : n.LISTING_SK # l.LISTING_SK} \cup loaded
  /\ reruns' = 0
  /\ UNCHANGED <<airflowVars, weeklyVars, mlVars, storeVars, taskVars, dagVars, extractVars, error,
                 registry, available_columns, pred, ppc, model_version, max_load_date,
                 records, batch_i, outcome, predict_runs>>

\* predict_rent_prices is not running.
InitPredictor ==
  /\ ppc = "idle"
  /\ model_version = {}
  /\ max_load_date = {}
  /\ records = <<>>
  /\ batch_i = 0
  /\ outcome = "none"
  /\ predict_runs = 0
  /\ reruns = 0

\* The warehouse before the first load.
InitWarehouse ==
  /\ registry = {}
  /\ available_columns = {}
  /\ fct = {}
  /\ pred = NoRows

(***************************************************************************)
(* train_rent_price_model                                                  *)
(***************************************************************************)
\* Bound of the model: the rows of the feature store.
MaxRows == 2

\* Bound of the model: the calls of train_rent_price_model, as many as there
\* are versions.
MaxTrainRuns == Len(Versions)

\* datetime.now().year
current_year == 2025

\* A JSON object is the set of its <<key, value>> pairs.  json.loads(x).get(key)
\* is {} (None) for a key the object has not.
Get(object, key) == {p[2] : p \in {q \in object : q[1] = key}}

\* The METADATA of a row: NULL, or an object with or without is_active.
Metadatas ==
  {NULL, {{}}, {{<<"is_active", "true">>}}, {{<<"is_active", "false">>}}}
YearsBuilt == {NULL, {1700}, {1990}, {2020}}
RentPrices == {NULL, {1500}}

FeatureRows ==
  {[metadata |-> m, year_built |-> y, rent_price |-> t] :
     m \in Metadatas, y \in YearsBuilt, t \in RentPrices}

FeatureStores == UNION {[1..n -> FeatureRows] : n \in 1..MaxRows}

\* df['is_active']: json.loads(x).get('is_active') if x else True
IsActiveOf(metadata) ==
  IF metadata = NULL THEN {"true"} ELSE Get(CHOOSE object \in metadata : TRUE, "is_active")

\* df['is_active'] == True
KeepsAll(is_active) == TRUE
Keeps(is_active) == is_active = {"true"}

\* Numbers are kept in hundredths: a quantile of integers has two decimals.
Hundredths(x) == {v * 100 : v \in x}

\* The row of df for a row of df_map.
Flatten(n, row) ==
  [id |-> n,
   year_built |-> Hundredths(row.year_built),
   property_age |-> NULL,
   rent_price |-> Hundredths(row.rent_price)]

\* The values of a column that are not null, as a list.
RECURSIVE NotNull(_, _)
NotNull(rows, column) ==
  IF rows = <<>> THEN <<>>
  ELSE (IF Head(rows)[column] = NULL THEN <<>>
        ELSE <<CHOOSE v \in Head(rows)[column] : TRUE>>) \o NotNull(Tail(rows), column)

RECURSIVE Sorted(_)
Sorted(values) ==
  IF values = <<>> THEN <<>>
  ELSE LET n == CHOOSE k \in DOMAIN values : \A j \in DOMAIN values : values[k] <= values[j]
       IN <<values[n]>> \o Sorted(SubSeq(values, 1, n - 1) \o SubSeq(values, n + 1, Len(values)))

\* Series.quantile(pct / 100): linear interpolation between the two values
\* around position pct / 100 * (n - 1) of the sorted values.
Quantile(values, pct) ==
  LET v == Sorted(values)
      h == pct * (Len(v) - 1)
      k == h \div 100
      f == h % 100
  IN IF f = 0 THEN v[k + 1] ELSE v[k + 1] + (f * (v[k + 2] - v[k + 1])) \div 100

\* Series.clip(upper=upper_limit)
NoClip(x, upper_limit) == x
Clip(x, upper_limit) == {IF v > upper_limit THEN upper_limit ELSE v : v \in x}

\* lambda year: current_year - year if pd.notnull(year) and year > 1800 else np.nan
PropertyAge(year) == {current_year * 100 - v : v \in {w \in year : w > 1800 * 100}}

\* df[mask]: the rows the mask holds for (by id), in their order.
RECURSIVE Filter(_, _)
Filter(rows, mask) ==
  IF rows = <<>> THEN <<>>
  ELSE (IF Head(rows).id \in mask THEN <<Head(rows)>> ELSE <<>>) \o Filter(Tail(rows), mask)

\* The rows between rent_lower = q1 - 1.5 * iqr and rent_upper = q3 + 1.5 * iqr;
\* a row without a rent_price is on neither side.
WithinIqr(rows) ==
  LET rents == NotNull(rows, "rent_price")
      rent_q1 == Quantile(rents, 25)
      rent_q3 == Quantile(rents, 75)
      rent_iqr == rent_q3 - rent_q1
      Inside(row) == \E rent \in row.rent_price :
                       /\ 2 * rent >= 2 * rent_q1 - 3 * rent_iqr
                       /\ 2 * rent <= 2 * rent_q3 + 3 * rent_iqr
  IN Filter(rows, {rows[n].id : n \in {m \in DOMAIN rows : Inside(rows[m])}})

TrainerIdle == tpc \in {"idle", "returned", "raised"}

\* The call: the fetch of the feature store, the flattening of its maps and
\* the filter on is_active.
TrainRentPriceModel ==
  /\ TrainerIdle
  /\ train_runs < MaxTrainRuns
  /\ train_runs' = train_runs + 1
  /\ LET df == [n \in DOMAIN feature_store |-> Flatten(n, feature_store[n])]
         active == {n \in DOMAIN feature_store : Keeps(IsActiveOf(feature_store[n].metadata))}
     IN df_modeling' = Filter(df, active)
  /\ numerical' = {"bedrooms", "bathrooms", "square_footage", "lot_size",
                   "year_built", "days_on_market"}
  /\ tpc' = "filtered"
  /\ train_outcome' = "none"
  /\ UNCHANGED <<airflowVars, weeklyVars, storeVars, taskVars, dagVars, extractVars, error,
                 predictVars, feature_store, frameVars>>

\* Handle outliers in numerical columns: clip at the 99th percentile.
ClipOutliers ==
  /\ tpc = "filtered"
  /\ LET years == NotNull(df_modeling, "year_built") IN
     df_modeling' =
       IF years = <<>> THEN df_modeling
       ELSE [n \in DOMAIN df_modeling |->
               [df_modeling[n] EXCEPT !.year_built = Clip(@, Quantile(years, 99))]]
  /\ tpc' = "clipped"
  /\ UNCHANGED <<airflowVars, weeklyVars, storeVars, taskVars, dagVars, extractVars, error,
                 predictVars, feature_store, numerical, train_outcome, train_runs, frameVars>>

\* Feature engineering: property_age, when year_built has a value at all.
EngineerFeatures ==
  /\ tpc = "clipped"
  /\ IF NotNull(df_modeling, "year_built") = <<>>
     THEN UNCHANGED <<df_modeling, numerical>>
     ELSE /\ df_modeling' =
               [n \in DOMAIN df_modeling |->
                  [df_modeling[n] EXCEPT !.property_age = PropertyAge(df_modeling[n].year_built)]]
          /\ numerical' = numerical \cup {"property_age"}
  /\ tpc' = "engineered"
  /\ UNCHANGED <<airflowVars, weeklyVars, storeVars, taskVars, dagVars, extractVars, error,
                 predictVars, feature_store, train_outcome, train_runs, frameVars>>

\* 'rent_price' in df_modeling.columns and df_modeling['rent_price'].notna().any()
HasTargetColumn(rows) == TRUE
HasTarget(rows) == NotNull(rows, "rent_price") # <<>>

\* The target: filtered to the rows within the IQR fences, or ValueError when
\* rent_price has no value.
SplitTarget ==
  /\ tpc = "engineered"
  /\ IF HasTarget(df_modeling)
     THEN /\ df_modeling' = WithinIqr(df_modeling)
          /\ tpc' = "split"
          /\ UNCHANGED train_outcome
     ELSE /\ tpc' = "raised"
          /\ train_outcome' = "ValueError"
          /\ UNCHANGED df_modeling
  /\ UNCHANGED <<airflowVars, weeklyVars, storeVars, taskVars, dagVars, extractVars, error,
                 predictVars, feature_store, numerical, train_runs, frameVars>>

\* datetime.now() as the trainer formats it: the local wall clock read to the
\* second.  Nothing orders the readings of two calls: runs of a DAG without
\* schedule may overlap, and the wall clock may be set back.
ClockReadings == VersionSet

\* model.fit(X_train, y_train): the pipeline fitted on the rows left.
FittedModel == <<"GradientBoosting", df_modeling>>

\* The manifest: the feature lists, the model type and the compression.
\* The categorical fields are columns the frame always has.
FeatureInfo ==
  <<"feature_info",
    [categorical |-> <<"property_type", "city", "state", "zip_code", "county",
                       "status", "listing_type", "zoning_code", "zoning_group">>,
     numerical |-> numerical,
     model_type |-> "GradientBoosting",
     compression_method |-> "gzip"]>>

\* The row the trainer inserts: model and manifest pickled, compressed with
\* gzip and base64-encoded, under the clock reading of the call; created_at
\* is filled by the warehouse at the insert.
RegistryRow(now) ==
  [MODEL_VERSION |-> now, MODEL_BLOB |-> Encode(FittedModel),
   FEATURE_INFO |-> Encode(FeatureInfo), CREATED_AT |-> train_runs]

\* train_test_split, the fit of the pipeline, and the INSERT into the
\* registry.  train_test_split raises when it is left without a training row.
FitAndRegister ==
  /\ tpc = "split"
  /\ \/ /\ Len(df_modeling) >= 2
        /\ \E now \in ClockReadings : registry' = registry \cup {RegistryRow(now)}
        /\ tpc' = "returned"
        /\ train_outcome' = "registered"
     \/ \* train_test_split, model.fit or hook.run raised
        /\ registry' = registry
        /\ tpc' = "raised"
        /\ train_outcome' = "raised"
  /\ UNCHANGED <<airflowVars, weeklyVars, storeVars, taskVars, dagVars, extractVars, error,
                 available_columns, fct, pred, predictorVars,
                 feature_store, df_modeling, numerical, train_runs, frameVars>>

\* train_rent_price_model is not running.
InitTrainer ==
  /\ feature_store = <<>>
  /\ df_modeling = <<>>
  /\ numerical = {}
  /\ tpc = "idle"
  /\ train_outcome = "none"
  /\ train_runs = 0

(***************************************************************************)
(* predict_rent_prices: the features of the frame passed to the model      *)
(***************************************************************************)
\* Bound of the model: the rows listing_query returns.
MaxFrameRows == 1

\* The columns of listing_query, in lower case.
ListingColumns ==
  <<"listing_sk", "listing_id", "sale_price", "days_on_market", "status",
    "listing_type", "load_date", "property_type", "square_footage", "bedrooms",
    "bathrooms", "lot_size", "year_built", "zoning_code", "zoning_group",
    "city", "state", "zip_code", "county">>

Range(f) == {f[x] : x \in DOMAIN f}

\* The cells of a frame: a number (in hundredths), NaN, None, or a value
\* the model does not look into.
NaN == <<"nan", 0>>
NoneCell == <<"none", 0>>
Some == <<"value", 0>>
Num(v) == <<"num", v * 100>>

\* The sub-lists of a list, in its order.
RECURSIVE SubLists(_)
SubLists(list) ==
  IF list = <<>> THEN {<<>>}
  ELSE LET rest == SubLists(Tail(list))
       IN rest \cup {<<Head(list)>> \o r : r \in rest}

\* The manifests: feature_info of the registry.  garage_spaces and
\* neighborhood stand for columns listing_query does not return.
Manifests ==
  [numerical : SubLists(<<"bedrooms", "year_built", "property_age",
                          "bath_to_bed_ratio", "garage_spaces">>),
   categorical : SubLists(<<"property_type", "neighborhood">>)]

\* The rows of listing_query, by the columns the features are derived from.
ListingRows ==
  [year_built : {NaN, Num(1700), Num(1990)},
   bedrooms : {NaN, Num(0), Num(2)},
   bathrooms : {NaN, Num(1)}]

ListingFrames == UNION {[1..n -> ListingRows] : n \in 1..MaxFrameRows}

EmptyFrame == [columns |-> <<>>, data |-> <<>>]

\* listings_df with its columns in lower case, and the copy X_pred of it.
FrameOf(rows) ==
  [columns |-> ListingColumns,
   data |-> [c \in Range(ListingColumns) |->
               [n \in DOMAIN rows |->
                  IF c \in {"year_built", "bedrooms", "bathrooms"} THEN rows[n][c] ELSE Some]]]

\* frame[col] = cells
Assign(frame, col, cells) ==
  IF col \in Range(frame.columns)
  THEN [frame EXCEPT !.data[col] = cells]
  ELSE [columns |-> Append(frame.columns, col),
        data |-> [c \in Range(frame.columns) \cup {col} |->
                    IF c = col THEN cells ELSE frame.data[c]]]

\* frame[col] = cell: the cell in every row.
Fill(frame, col, cell) ==
  Assign(frame, col, [n \in DOMAIN frame.data[frame.columns[1]] |-> cell])

\* lambda year: current_year - year if pd.notnull(year) and year > 1800 else np.nan
AgeOf(year) ==
  IF year # NaN /\ year[2] > 1800 * 100 THEN <<"num", current_year * 100 - year[2]>> ELSE NaN

\* row['bathrooms'] / row['bedrooms'] if both are there and bedrooms > 0
RatioOf(bathrooms, bedrooms) ==
  IF bedrooms # NaN /\ bedrooms[2] > 0 /\ bathrooms # NaN
  THEN <<"num", (bathrooms[2] * 100) \div bedrooms[2]>> ELSE NaN

\* np.nan for a numerical feature, None for a categorical one.
AlwaysNaN(kind) == NaN
MissingMarker(kind) == IF kind = "numerical" THEN NaN ELSE NoneCell

\* The loop over a feature list: the features the frame has not are added.
RECURSIVE AddMissing(_, _, _)
AddMissing(frame, features, kind) ==
  IF features = <<>> THEN frame
  ELSE AddMissing(IF Head(features) \in Range(frame.columns) THEN frame
                  ELSE Fill(frame, Head(features), MissingMarker(kind)),
                  Tail(features), kind)

\* The feature lists of the manifest, listing_query, the lower-case columns,
\* to_numeric and the copy.
PrepareData ==
  /\ fpc = "idle"
  /\ \E manifest \in Manifests, rows \in ListingFrames :
       /\ feature_info' = manifest
       /\ X_pred' = FrameOf(rows)
  /\ X_pred_model' = EmptyFrame
  /\ fpc' = "copied"
  /\ UNCHANGED <<airflowVars, weeklyVars, storeVars, taskVars, dagVars, extractVars, error,
                 predictVars, trainVars>>

\* 5. Feature engineering: property_age and bath_to_bed_ratio, for a
\* manifest that lists them.
EngineerFrame ==
  /\ fpc = "copied"
  /\ LET rows == DOMAIN X_pred.data["listing_sk"]
         aged ==
           IF "property_age" \in Range(feature_info.numerical)
           THEN IF "year_built" \in Range(X_pred.columns)
                THEN Assign(X_pred, "property_age",
                            [n \in rows |-> AgeOf(X_pred.data["year_built"][n])])
                ELSE Fill(X_pred, "property_age", NaN)
           ELSE X_pred
     IN X_pred' =
          IF "bath_to_bed_ratio" \in Range(feature_info.numerical)
          THEN IF {"bathrooms", "bedrooms"} \subseteq Range(aged.columns)
               THEN Assign(aged, "bath_to_bed_ratio",
                           [n \in rows |-> RatioOf(aged.data["bathrooms"][n],
                                                   aged.data["bedrooms"][n])])
               ELSE Fill(aged, "bath_to_bed_ratio", NaN)
          ELSE aged
  /\ fpc' = "engineered"
  /\ UNCHANGED <<airflowVars, weeklyVars, storeVars, taskVars, dagVars, extractVars, error,
                 predictVars, trainVars, feature_info, X_pred_model>>

\* 6. Ensure all expected features exist in the prediction data.
AddMissingFeatures ==
  /\ fpc = "engineered"
  /\ X_pred' = AddMissing(AddMissing(X_pred, feature_info.numerical, "numerical"),
                          feature_info.categorical, "categorical")
  /\ fpc' = "complete"
  /\ UNCHANGED <<airflowVars, weeklyVars, storeVars, taskVars, dagVars, extractVars, error,
                 predictVars, trainVars, feature_info, X_pred_model>>

\* 7. X_pred[numerical_features + categorical_features]: KeyError for a
\* feature that is not a column.
SelectFeatures ==
  /\ fpc = "complete"
  /\ LET features == feature_info.numerical \o feature_info.categorical IN
     IF Range(features) \subseteq Range(X_pred.columns)
     THEN /\ X_pred_model' = [columns |-> features,
                              data |-> [c \in Range(features) |-> X_pred.data[c]]]
          /\ fpc' = "selected"
     ELSE /\ X_pred_model' = X_pred_model
          /\ fpc' = "raised"
  /\ UNCHANGED <<airflowVars, weeklyVars, storeVars, taskVars, dagVars, extractVars, error,
                 predictVars, trainVars, feature_info, X_pred>>

\* predict_rent_prices is not at its feature steps.
InitFrame ==
  /\ feature_info = [numerical |-> <<>>, categorical |-> <<>>]
  /\ X_pred = EmptyFrame
  /\ X_pred_model = EmptyFrame
  /\ fpc = "idle"

(***************************************************************************)
(* The realtylens_weekly DAG: setup_stages >> refresh_stages >>            *)
(* load_raw_data_from_s3 >> transform_data, scheduled '@weekly' with       *)
(* catchup=True.  The DAG sets no max_active_runs and no depends_on_past:  *)
(* the scheduler creates a run for every interval that is due, up to the   *)
(* limit of the deployment (max_active_runs_per_dag), which lies above the *)
(* runs the model creates.                                                 *)
(***************************************************************************)
\* Bound of the model: the weekly intervals that are due.
MaxWeeklyRuns == 2

WeeklyChain == <<"setup_stages", "refresh_stages", "load_raw_data_from_s3", "transform_data">>

WeeklyLoad == 3
WeeklyTransform == 4

\* default_args 'retries': 0; the DbtTaskGroup has default_args {"retries": 2}
WeeklyRetries(n) == IF n = WeeklyTransform THEN 2 ELSE 0

NewWeeklyRun ==
  [ti |-> [n \in DOMAIN WeeklyChain |-> [state |-> "none", try_number |-> 0]],
   read |-> NULL]

WeeklyFinished(run) ==
  \A n \in DOMAIN WeeklyChain : run.ti[n].state \in {"success", "failed", "upstream_failed"}

\* The runs that are neither finished nor yet to be created.
ActiveWeeklyRuns == {r \in DOMAIN weekly : ~WeeklyFinished(weekly[r])}

\* The scheduler creates the run of the next interval that is due.
CreateWeeklyRun ==
  /\ Len(weekly) < MaxWeeklyRuns
  /\ weekly' = Append(weekly, NewWeeklyRun)
  /\ UNCHANGED <<airflowVars, storeVars, taskVars, dagVars, extractVars, error,
                 predictVars, mlVars, raw_tables>>

\* all_success: the task starts when the task before it has succeeded, and
\* is upstream_failed when that one has failed.
WeeklySchedule(r, n) ==
  /\ weekly[r].ti[n].state = "none"
  /\ \/ /\ IF n = 1 THEN TRUE ELSE weekly[r].ti[n - 1].state = "success"
        /\ weekly' = [weekly EXCEPT ![r].ti[n] = [state |-> "running", try_number |-> 1]]
     \/ /\ n > 1
        /\ weekly[r].ti[n - 1].state \in {"failed", "upstream_failed"}
        /\ weekly' = [weekly EXCEPT ![r].ti[n].state = "upstream_failed"]
  /\ UNCHANGED <<airflowVars, storeVars, taskVars, dagVars, extractVars, error,
                 predictVars, mlVars, raw_tables>>

\* The task ends well.  raw_data_load_sql: CREATE OR REPLACE TABLE raw_... AS
\* SELECT ..., TO_DATE('{ds}') as load_date; transform_data reads the raw
\* tables as they are.
WeeklyTaskSucceeds(r, n) ==
  /\ weekly[r].ti[n].state = "running"
  /\ weekly' = [weekly EXCEPT ![r].ti[n].state = "success",
                              ![r].read = IF n = WeeklyTransform THEN raw_tables ELSE @]
  /\ raw_tables' = IF n = WeeklyLoad THEN {r} ELSE raw_tables
  /\ UNCHANGED <<airflowVars, storeVars, taskVars, dagVars, extractVars, error,
                 predictVars, mlVars>>

\* The task raises: a retry if it has one left.  The statements of the load
\* run one after the other: those before the failing one have replaced
\* their tables.
WeeklyTaskFails(r, n) ==
  /\ weekly[r].ti[n].state = "running"
  /\ weekly' = [weekly EXCEPT ![r].ti[n].state =
                  IF weekly[r].ti[n].try_number <= WeeklyRetries(n) THEN "up_for_retry"
                  ELSE "failed"]
  /\ \/ raw_tables' = raw_tables
     \/ /\ n = WeeklyLoad
        /\ raw_tables' = {r}
  /\ UNCHANGED <<airflowVars, storeVars, taskVars, dagVars, extractVars, error,
                 predictVars, mlVars>>

WeeklyTaskRetries(r, n) ==
  /\ weekly[r].ti[n].state = "up_for_retry"
  /\ weekly' = [weekly EXCEPT ![r].ti[n] =
                  [state |-> "running", try_number |-> weekly[r].ti[n].try_number + 1]]
  /\ UNCHANGED <<airflowVars, storeVars, taskVars, dagVars, extractVars, error,
                 predictVars, mlVars, raw_tables>>

\* No weekly interval is due yet; the raw tables do not exist.
InitWeekly ==
  /\ weekly = <<>>
  /\ raw_tables = NULL

\* No DAG run before this one, the branch task not started.
InitDag ==
  /\ prev_ti = [t \in TaskIds |-> "no_run"]
  /\ run_no = 1
  /\ sales_objects = NoResponse
  /\ rental_objects = NoResponse
  /\ branch = "none"
  /\ xcom = {}
  /\ error = "none"

\* extract_property_data not called yet.
InitExtractor ==
  /\ endpoint_type = "sale"
  /\ api_calls = 0
  /\ offset = 0
  /\ all_listings = <<>>
  /\ api_log = <<>>
  /\ loop_exit = "none"
  /\ fetched = <<>>
  /\ results = <<>>

\* The task instance of extract_daily_property_data has just been started
\* for some date, over a bucket that may hold objects of that date.
InitExtract ==
  /\ airflowVars \in VariableConfigs
  /\ ds \in Dates
  /\ \E landed \in SUBSET KeysOf(ds) : s3 = [k \in landed |-> LandedBody]
  /\ writes = [k \in AllKeys |-> 0]
  /\ ti = [t \in TaskIds |-> IF t = ExtractTask THEN "running" ELSE "none"]
  /\ try_number = [t \in TaskIds |-> IF t = ExtractTask THEN 1 ELSE 0]
  /\ pc = "start"
  /\ InitDag
  /\ InitExtractor
  /\ InitWarehouse
  /\ InitPredictor
  /\ InitTrainer
  /\ InitFrame
  /\ InitWeekly

NextExtract ==
  \/ ExtractStart
  \/ FetchCall
  \/ FetchLoopExit
  \/ SaveListings
  \/ RunExtractionNext
  \/ ExtractReturn
  \/ ExtractTaskSucceeds
  \/ ExtractTaskFails
  \/ ExtractTaskRetries

SpecExtract == InitExtract /\ [][NextExtract]_vars

\* The first run of the DAG starts, for some date, over a bucket that may
\* hold objects landed earlier.
InitDaily ==
  /\ airflowVars \in VariableConfigs
  /\ ds \in Dates
  /\ \E landed \in SUBSET AllKeys : s3 = [k \in landed |-> LandedBody]
  /\ writes = [k \in AllKeys |-> 0]
  /\ ti = [t \in TaskIds |-> "none"]
  /\ try_number = [t \in TaskIds |-> 0]
  /\ pc = "idle"
  /\ InitDag
  /\ InitExtractor
  /\ InitWarehouse
  /\ InitPredictor
  /\ InitTrainer
  /\ InitFrame
  /\ InitWeekly

\* The steps of a DAG run up to the start of what is downstream of the
\* branch task.
NextDaily ==
  \/ \E t \in TaskIds : Schedule(t)
  \/ CheckExistingData
  \/ CheckTaskRetries
  \/ NextScheduledRun
  \/ ClearedRun

SpecDaily == InitDaily /\ [][NextDaily]_vars

\* The DAG run with the steps of the extraction task.
NextPipeline == NextDaily \/ NextExtract

SpecPipeline == InitDaily /\ [][NextPipeline]_vars

\* The predictor is about to be called on a warehouse that has been loaded
\* once; PREDICTED_RENT_PRICES does not exist yet.
InitPredict ==
  /\ airflowVars = AllSet
  /\ ds = 1
  /\ s3 = [k \in KeysOf(ds) |-> LandedBody]
  /\ writes = [k \in AllKeys |-> 0]
  /\ ti = [t \in TaskIds |-> "none"]
  /\ try_number = [t \in TaskIds |-> 0]
  /\ pc = "idle"
  /\ InitDag
  /\ InitExtractor
  /\ registry \in Registries
  /\ available_columns \in RegistryColumns
  /\ fct \in Loads(1)
  /\ pred = NoRows
  /\ InitPredictor
  /\ InitTrainer
  /\ InitFrame
  /\ InitWeekly

NextPredict ==
  \/ PredictRentPrices
  \/ SimplifiedPrediction
  \/ MakePredictions
  \/ DeleteExisting
  \/ InsertBatch
  \/ PredictReturn
  \/ LoadWarehouse

SpecPredict == InitPredict /\ [][NextPredict]_vars

\* The trainer is about to be called on a feature store; the registry has
\* just been created.
InitTrain ==
  /\ airflowVars = AllSet
  /\ ds = 1
  /\ s3 = [k \in KeysOf(ds) |-> LandedBody]
  /\ writes = [k \in AllKeys |-> 0]
  /\ ti = [t \in TaskIds |-> "none"]
  /\ try_number = [t \in TaskIds |-> 0]
  /\ pc = "idle"
  /\ InitDag
  /\ InitExtractor
  /\ registry = {}
  /\ available_columns \in {c \in RegistryColumns : "CREATED_AT" \in c}
  /\ fct = {}
  /\ pred = NoRows
  /\ InitPredictor
  /\ feature_store \in FeatureStores
  /\ df_modeling = <<>>
  /\ numerical = {}
  /\ tpc = "idle"
  /\ train_outcome = "none"
  /\ train_runs = 0
  /\ InitFrame
  /\ InitWeekly

NextTrain ==
  \/ TrainRentPriceModel
  \/ ClipOutliers
  \/ EngineerFeatures
  \/ SplitTarget
  \/ FitAndRegister

SpecTrain == InitTrain /\ [][NextTrain]_vars

\* The predictor is about to prepare the frame for a manifest it has loaded.
InitFeatures ==
  /\ airflowVars = AllSet
  /\ ds = 1
  /\ s3 = [k \in KeysOf(ds) |-> LandedBody]
  /\ writes = [k \in AllKeys |-> 0]
  /\ ti = [t \in TaskIds |-> "none"]
  /\ try_number = [t \in TaskIds |-> 0]
  /\ pc = "idle"
  /\ InitDag
  /\ InitExtractor
  /\ InitWarehouse
  /\ InitPredictor
  /\ InitTrainer
  /\ InitFrame
  /\ InitWeekly

NextFeatures ==
  \/ PrepareData
  \/ EngineerFrame
  \/ AddMissingFeatures
  \/ SelectFeatures

SpecFeatures == InitFeatures /\ [][NextFeatures]_vars

\* The weekly DAG has just been switched on.
InitWeeklyDag ==
  /\ airflowVars = AllSet
  /\ ds = 1
  /\ s3 = [k \in KeysOf(ds) |-> LandedBody]
  /\ writes = [k \in AllKeys |-> 0]
  /\ ti = [t \in TaskIds |-> "none"]
  /\ try_number = [t \in TaskIds |-> 0]
  /\ pc = "idle"
  /\ InitDag
  /\ InitExtractor
  /\ InitWarehouse
  /\ InitPredictor
  /\ InitTrainer
  /\ InitFrame
  /\ InitWeekly

NextWeekly ==
  \/ CreateWeeklyRun
  \/ \E r \in DOMAIN weekly, n \in DOMAIN WeeklyChain : WeeklySchedule(r, n)
  \/ \E r \in DOMAIN weekly, n \in DOMAIN WeeklyChain : WeeklyTaskSucceeds(r, n)
  \/ \E r \in DOMAIN weekly, n \in DOMAIN WeeklyChain : WeeklyTaskFails(r, n)
  \/ \E r \in DOMAIN weekly, n \in DOMAIN WeeklyChain : WeeklyTaskRetries(r, n)

SpecWeekly == InitWeeklyDag /\ [][NextWeekly]_vars

(***************************************************************************)
(* Properties of the extractor, checked under SpecExtract.                 *)
(***************************************************************************)
Last(seq) == seq[Len(seq)]

\* The non-empty pages that the parsed responses of a log carried, in order.
RECURSIVE PagesOfLog(_)
PagesOfLog(log) ==
  IF log = <<>> THEN <<>>
  ELSE (IF log[1].items > 0
        THEN <<[offset |-> log[1].offset, n |-> log[1].items]>>
        ELSE <<>>) \o PagesOfLog(Tail(log))

\* A 200 response whose page holds fewer than `limit` items (zero included).
ShortPage(e) == e.status = 200 /\ e.items >= 0 /\ e.items < limit
\* A 200 response whose page holds `limit` items.
FullPage(e) == e.status = 200 /\ e.items = limit
\* A response with a non-200 status.
NonSuccess(e) == e.status # 200 /\ e.status # 0
\* No page came back: a non-200 status, or an exception in the request or in
\* the parsing of its body.
CallFailed(e) == e.items = -1

\* The loop makes no further call.
LoopStopped == loop_exit # "none" \/ api_calls >= max_calls

\* C3: in every extraction run and for every category, fetch_listings makes
\* at most max_calls (20) API calls, whatever the API answers.
C3_CallBudget == Len(api_log) <= max_calls /\ api_calls <= max_calls

\* C3's case: a fetch that used all 20 calls and was stopped by the budget.
C3_Witness == Len(api_log) = max_calls /\ loop_exit = "budget"

\* C4, as stated: after a call the loop stops exactly when the call's page
\* holds fewer than 500 items (zero included) or the budget is used up.
C4_StopsOnlyOnShortPageOrBudget ==
  api_log # <<>> =>
    (LoopStopped <=> (ShortPage(Last(api_log)) \/ api_calls >= max_calls))

\* C4, amended: after a call the loop stops exactly when the call's page
\* holds fewer than 500 items (zero included), or the call failed (non-200
\* status, or an exception), or the budget is used up.
C4_StopsExactlyWhen ==
  api_log # <<>> =>
    (LoopStopped <=> (\/ ShortPage(Last(api_log))
                      \/ CallFailed(Last(api_log))
                      \/ api_calls >= max_calls))

\* C4's case: two full pages were followed by a short one, which stopped the loop.
C4_Witness ==
  /\ Len(api_log) = 3
  /\ ShortPage(Last(api_log))
  /\ Last(api_log).items > 0
  /\ loop_exit = "last_page"

\* C5: a non-200 status is the last call of its fetch_listings call, which
\* raises nothing and returns exactly the pages of the calls before it.
C5_ErrorReturnsPartial ==
  \A i \in 1..Len(api_log) :
    NonSuccess(api_log[i]) =>
      /\ i = Len(api_log)
      /\ pc # "fetch"
      /\ loop_exit = "api_error"
      /\ endpoint_type \in DOMAIN fetched
      /\ fetched[endpoint_type] = PagesOfLog(SubSeq(api_log, 1, i - 1))
      /\ (pc = "fetched" => error = "none")

\* C5's case: a non-200 status after two successful pages.
C5_Witness ==
  /\ Len(api_log) = 3
  /\ NonSuccess(Last(api_log))
  /\ pc = "fetched"

Endpoints == {"sale", "rental/long-term"}

\* C6, as stated: extract_property_data raises when both fetches returned
\* no listings, and then no object was written; otherwise it returns a
\* mapping from each category to the storage path written.
C6_RaisesIffNoListings ==
  (pc \in {"raised", "returned"} /\ DOMAIN fetched = Endpoints) =>
    IF \A e \in Endpoints : fetched[e] = <<>>
    THEN /\ pc = "raised"
         /\ \A k \in KeysOf(ds) : writes[k] = 0
    ELSE /\ pc = "returned"
         /\ DOMAIN results = {ResultKeyOf(e) : e \in {x \in Endpoints : fetched[x] # <<>>}}
         /\ \A e \in Endpoints :
              fetched[e] # <<>> =>
                LET key == Key(ListingTypeOf(e), "PA", "Philadelphia", ds) IN
                /\ results[ResultKeyOf(e)] = S3Path(key)
                /\ key \in DOMAIN s3
                /\ s3[key] = fetched[e]

\* The API answered full pages only.
OnlyFullPages(log) == \A i \in 1..Len(log) : FullPage(log[i])
\* The API answered k full pages and then a short page.
FullThenShort(log) ==
  /\ log # <<>>
  /\ OnlyFullPages(SubSeq(log, 1, Len(log) - 1))
  /\ ShortPage(Last(log))

\* C7, as stated: when the API answers k full pages (k < 20) and then a
\* short page, the extractor makes exactly those k+1 calls, at offsets 0,
\* 500, ..., 500k, and, when an item was returned, writes one object at the
\* category's key holding the items in page order and returns its path.
C7_FullPagesThenShort ==
  /\ (api_log # <<>> /\ OnlyFullPages(api_log) /\ Len(api_log) < max_calls) =>
       (pc = "fetch" /\ offset = limit * Len(api_log))
  /\ FullThenShort(api_log) =>
       /\ pc # "fetch"
       /\ api_calls = Len(api_log)
       /\ \A i \in 1..Len(api_log) : api_log[i].offset = limit * (i - 1)
       /\ (pc \in {"saved", "collected", "returned"} /\ NumItems(PagesOfLog(api_log)) > 0) =>
            LET key == Key(ListingTypeOf(endpoint_type), "PA", "Philadelphia", ds) IN
            /\ key \in DOMAIN s3
            /\ s3[key] = PagesOfLog(api_log)
            /\ writes[key] = 1
            /\ ResultKeyOf(endpoint_type) \in DOMAIN results
            /\ results[ResultKeyOf(endpoint_type)] = S3Path(key)

(***************************************************************************)
(* Claims about the branch task and the DAG run                            *)
(***************************************************************************)
\* Both category prefixes of the run's date hold at least one object.
FullyLanded(d) ==
  /\ ListObjectsV2(Prefix("sales", "PA", "Philadelphia", d)) # {}
  /\ ListObjectsV2(Prefix("rental", "PA", "Philadelphia", d)) # {}

\* The extraction task of the current run was never started.
ExtractionNeverInvoked ==
  /\ try_number[ExtractTask] = 0
  /\ ti[ExtractTask] \notin {"running", "up_for_retry", "success", "failed"}
  /\ pc = "idle"

\* C1: in a run for a date whose sale prefix and rental prefix both hold an
\* object, a decision the partition checker returns is the one that skips the
\* extraction ('create_schema'), and the extraction task is never started in
\* that run.
C1_LandedDateSkipsExtraction ==
  FullyLanded(ds) =>
    /\ branch \in {"none", "create_schema"}
    /\ ExtractionNeverInvoked

\* C1 witness: the checker has returned its decision for a fully landed date
\* and every task of the run has reached its final state.
C1_Witness ==
  /\ FullyLanded(ds)
  /\ branch = "create_schema"
  /\ HasContents(sales_objects) /\ HasContents(rental_objects)
  /\ RunFinished

RECURSIVE Copies(_, _)
\* The number of rows of the table among `rows`, each counted as often as
\* the table holds it.
Copies(table, rows) ==
  IF rows = {} THEN 0
  ELSE LET r == CHOOSE x \in rows : TRUE IN table[r] + Copies(table, rows \ {r})

\* The number of rows PREDICTED_RENT_PRICES holds for a listing and a date.
CountRows(sk, d) ==
  Copies(pred, {r \in Rows(pred) : r.LISTING_SK = sk /\ r.LOAD_DATE = d})

Succeeded == outcome = "Successfully predicted rent prices"
FellBack == outcome = "Completed simplified rent price prediction"

\* C8: when the predictor has run again for the same most recent load date,
\* the listings unchanged, PREDICTED_RENT_PRICES holds no listing twice for
\* that load date, whichever path each run took; and after a run of the
\* model path it holds each listing the run predicted exactly once.
C8_RerunLeavesOneRowPerListing ==
  (reruns >= 2 /\ ppc = "returned") =>
    \A d \in max_load_date :
      /\ \A sk \in ListingSKs : CountRows(sk, d) <= 1
      /\ Succeeded => \A l \in ListingQuery(max_load_date) : CountRows(l.LISTING_SK, d) = 1

\* C8 witness: after a second run for the same load date the table holds a
\* row of the model path and a row of the fallback path for that date.
C8_Witness ==
  /\ reruns >= 2
  /\ ppc = "returned"
  /\ \E r1, r2 \in Rows(pred) :
       /\ r1.LOAD_DATE \in max_load_date
       /\ r2.LOAD_DATE \in max_load_date
       /\ r1.MODEL_VERSION = "simplified-model"
       /\ r2.MODEL_VERSION \in VersionSet

\* C9: when the run fell back because no model could be loaded, each sale
\* listing of the most recent load date has its row of that date in
\* PREDICTED_RENT_PRICES with PREDICTED_RENT_PRICE = 0.005 x SALE_PRICE and
\* MODEL_VERSION = 'simplified-model'.  (Violated: simple_pred_query passes
\* over every listing whose LISTING_SK has a row already, of any load date
\* and any model.)
C9_FallbackPopulatesLoadDate ==
  (ppc = "returned" /\ FellBack) =>
    \A l \in fct :
      l.LOAD_DATE \in max_load_date =>
        \E r \in Rows(pred) :
          /\ r.LISTING_SK = l.LISTING_SK
          /\ r.LOAD_DATE = l.LOAD_DATE
          /\ r.PREDICTED_RENT_PRICE = SimplifiedRent(l.SALE_PRICE)
          /\ r.MODEL_VERSION = "simplified-model"

\* C10: after a run of the predictor, however it ended, PREDICTED_RENT_PRICES
\* holds a row for the most recent load date when FCT_SALE_LISTING holds a
\* listing for it.  (Violated: the DELETE and the INSERTs are separate
\* statements, the model path writes nothing for listings without a sale
\* price, and a run that raises writes nothing.)
C10_LoadDateNeverWithoutPrediction ==
  (ppc \in {"returned", "raised"} /\ reruns >= 1) =>
    \A d \in SelectMaxLoadDate : \E r \in Rows(pred) : r.LOAD_DATE = d

(***************************************************************************)
(* Claims about load_model_from_registry                                   *)
(***************************************************************************)
\* The versions that may be asked for: none ({}), or one.
Requests == {{}} \cup {{v} : v \in VersionSet}

\* Only rows with a non-null model_blob are eligible.
Eligible == {r \in registry : r.MODEL_BLOB # NullBlob}

\* The row the claim has selected for a request, if there is one.
Selected(version, r) ==
  /\ r \in Eligible
  /\ version # {} => r.MODEL_VERSION \in version
  /\ (version = {} /\ "CREATED_AT" \in available_columns) =>
       \A q \in Eligible : q.CREATED_AT <= r.CREATED_AT
  /\ (version = {} /\ "CREATED_AT" \notin available_columns) =>
       \A q \in Eligible : Rank(q.MODEL_VERSION) <= Rank(r.MODEL_VERSION)

IsPrefix(seq1, seq2) ==
  Len(seq1) <= Len(seq2) /\ seq1 = SubSeq(seq2, 1, Len(seq1))

\* C12: decoding a blob of the registry (model or manifest) tries gzip, then
\* bz2, then raw unpickling, in that order, stops at the first scheme that
\* yields an object and returns that object; it fails only when all three
\* fail.
C12_DecodeOrder ==
  /\ \A r \in registry : \A blob \in {r.MODEL_BLOB, r.FEATURE_INFO} \ {NullBlob} :
       LET d == Decode(blob) IN
       /\ d.tried # <<>>
       /\ IsPrefix(d.tried, Schemes)
       /\ \A n \in 1..(Len(d.tried) - 1) : ~Unpacks(Schemes[n], blob)
       /\ ~d.raised => (d.by = d.tried[Len(d.tried)] /\ Unpacks(d.by, blob))
       /\ d.raised <=> \A n \in DOMAIN Schemes : ~Unpacks(Schemes[n], blob)
  /\ ppc = "loaded" =>
       \E r \in registry :
         /\ model_version = {r.MODEL_VERSION}
         /\ ~Decode(r.MODEL_BLOB).raised
         /\ ~Decode(r.FEATURE_INFO).raised

\* C12 witness: a model was loaded whose blob only the second scheme decodes.
C12_Witness ==
  /\ ppc = "loaded"
  /\ \E r \in registry :
       /\ model_version = {r.MODEL_VERSION}
       /\ Decode(r.MODEL_BLOB).by = "bz2"
       /\ Decode(r.MODEL_BLOB).tried = <<"gzip", "bz2">>

(***************************************************************************)
(* Claims about train_rent_price_model                                     *)
(***************************************************************************)
\* The ids of the rows df_modeling holds.
Ids(rows) == {rows[n].id : n \in DOMAIN rows}

\* The is_active the METADATA of row n of the feature store carries, if any.
StoredIsActive(n) ==
  IF feature_store[n].metadata = NULL THEN {}
  ELSE Get(CHOOSE object \in feature_store[n].metadata : TRUE, "is_active")

\* C14: once the trainer has filtered the active records, a row of the feature
\* store whose metadata has is_active = false is not among the rows it trains
\* on, and a row whose metadata has no is_active value is among them.
C14_AbsentIsActiveIncluded ==
  tpc = "filtered" =>
    \A n \in DOMAIN feature_store :
      /\ StoredIsActive(n) = {"false"} => n \notin Ids(df_modeling)
      /\ StoredIsActive(n) = {} => n \in Ids(df_modeling)

\* C15: once the trainer has engineered its features, the property_age of
\* every row it trains on is missing when the year_built the feature store
\* holds for the row is missing or at most 1800, and is current_year minus
\* that year_built otherwise.
C15_PropertyAgeFromSourceYear ==
  tpc = "engineered" =>
    \A n \in DOMAIN df_modeling :
      LET source == feature_store[df_modeling[n].id].year_built
      IN df_modeling[n].property_age =
           Hundredths({current_year - year : year \in {y \in source : y > 1800}})

\* The rows of the feature store the trainer takes as active.
ActiveRows == {n \in DOMAIN feature_store : IsActiveOf(feature_store[n].metadata) = {"true"}}

\* No active row of the feature store has a rent_price.
NoTarget == \A n \in ActiveRows : feature_store[n].rent_price = NULL

\* C16: when rent_price is missing for every active row of the feature store,
\* no step of train_rent_price_model changes the model registry or returns,
\* and the step that looks at the target raises ValueError.
C16_NoTargetNoRegistration ==
  [][NoTarget =>
       /\ registry' = registry
       /\ tpc' # "returned"
       /\ tpc = "engineered" => (tpc' = "raised" /\ train_outcome' = "ValueError")]_vars

\* C16: a run over active rows, none of which has a rent_price, has raised
\* ValueError, and so has the run before it.
C16_Witness ==
  /\ NoTarget
  /\ ActiveRows # {}
  /\ tpc = "raised"
  /\ train_outcome = "ValueError"
  /\ train_runs = MaxTrainRuns
  /\ registry = {}

(***************************************************************************)
(* Claims about the frame predict_rent_prices passes to the model          *)
(***************************************************************************)
\* The features of a list that are neither columns of listing_query nor
\* derived from them.
Absent(features) ==
  Range(features) \ (Range(ListingColumns) \cup {"property_age", "bath_to_bed_ratio"})

\* Every cell of the column is the cell.
Filled(frame, col, cell) == \A n \in DOMAIN frame.data[col] : frame.data[col][n] = cell

\* C13: the feature steps of the predictor never raise, and the frame they
\* select for the model has the columns of the manifest, numerical ones
\* first, and no other; a numerical feature the data has not is NaN in every
\* row, a categorical one None.
C13_AbsentFeaturesFilled ==
  /\ fpc # "raised"
  /\ fpc = "selected" =>
       /\ X_pred_model.columns = feature_info.numerical \o feature_info.categorical
       /\ DOMAIN X_pred_model.data = Range(X_pred_model.columns)
       /\ \A col \in Absent(feature_info.numerical) : Filled(X_pred_model, col, NaN)
       /\ \A col \in Absent(feature_info.categorical) : Filled(X_pred_model, col, NoneCell)

\* C13: a frame has been selected for a manifest that lists a numerical and
\* a categorical feature the data has not, next to features it has.
C13_Witness ==
  /\ fpc = "selected"
  /\ Absent(feature_info.numerical) # {}
  /\ Absent(feature_info.categorical) # {}
  /\ "year_built" \in Range(X_pred_model.columns)
  /\ Filled(X_pred_model, "garage_spaces", NaN)
  /\ Filled(X_pred_model, "neighborhood", NoneCell)

(***************************************************************************)
(* Claims about the steps of a daily run                                   *)
(***************************************************************************)
\* The tasks of LOAD_WAREHOUSE, TRANSFORM and PREDICT.
LoadSteps == FlatDownstream(ExtractTask)

\* The task instance has been started in this run.
Executed(t) == ti[t] \in {"running", "up_for_retry", "success", "failed"}

\* C17: a daily run whose check has come to its decision goes on to EXTRACT
\* or to SKIP and from there to LOAD_WAREHOUSE: the check ends in success,
\* the extraction is skipped exactly when the decision is to skip it, and
\* no step of LOAD_WAREHOUSE, TRANSFORM or PREDICT is given up.
C17_DecidedRunGoesOn ==
  (branch # "none" /\ Finished(CheckTask)) =>
    /\ ti[CheckTask] = "success"
    /\ ti[ExtractTask] = "skipped" <=> branch = "create_schema"
    /\ \A t \in LoadSteps : ti[t] # "upstream_failed"

\* C18: once a task of a daily run has failed for good, no task downstream of
\* it is started in that run, and no step of the run takes anything back
\* from the bucket or from the tables of the warehouse.
C18_FailureStopsTheChain ==
  [][\A t \in TaskIds :
       (ti[t] = "failed" /\ run_no' = run_no) =>
         /\ \A d \in FlatDownstream(t) : ~Executed(d) /\ ~Executed(d)'
         /\ s3' = s3 /\ fct' = fct /\ pred' = pred /\ registry' = registry]_vars

\* C18: the branch task has failed after its last retry, and the run has
\* ended with every other task given up as upstream_failed.
C18_Witness ==
  /\ ti[CheckTask] = "failed"
  /\ try_number[CheckTask] = retries + 1
  /\ \A t \in TaskIds \ {CheckTask} : ti[t] = "upstream_failed"
  /\ DOMAIN s3 # {}

\* The errors of the existence check: a variable that is unset or empty, or
\* an error of the listing call.
CheckErrors == {"KeyError", "ValueError", "ClientError"}

\* C20: while the existence check stands failed with a credential or
\* connectivity error, there is no branch decision and no pushed value, the
\* branch task is failed or waits for its retry, and neither the extraction
\* nor a load step has been started.
C20_FailedCheckDecidesNothing ==
  error \in CheckErrors =>
    /\ branch = "none"
    /\ xcom = {}
    /\ ti[CheckTask] \in {"up_for_retry", "failed"}
    /\ \A t \in TaskIds \ {CheckTask} : ~Executed(t)

\* C20: the listing call has raised in the last attempt of the branch task
\* over partitions that have landed, and the run has ended.
C20_Witness ==
  /\ error = "ClientError"
  /\ ti[CheckTask] = "failed"
  /\ KeysOf(ds) \subseteq DOMAIN s3
  /\ RunFinished

(***************************************************************************)
(* Claims about runs that execute at the same time                         *)
(***************************************************************************)
\* C19: as of the daily DAG, whose runs start one after the other, at most
\* one run of the weekly DAG is executing at any time, and the
\* transformation of a weekly run reads the raw tables as the load of that
\* same run has left them.
C19_OneRunAtATime ==
  /\ Cardinality(ActiveWeeklyRuns) <= 1
  /\ \A r \in DOMAIN weekly :
       weekly[r].ti[WeeklyTransform].state = "success" => weekly[r].read = {r}

(***************************************************************************)
(* Claims about credentials                                                *)
(***************************************************************************)
\* One of the Airflow Variables `names` is not set, or is set to nothing.
MissingCredential(names) == \E v \in names : airflowVars[v] \in {"unset", "empty"}

\* C21: with a credential of the extractor missing or empty,
\* extract_property_data raises before it calls the API or writes an object:
\* it is at its start or has raised, and its task instance does not succeed;
\* with an AWS credential missing or empty, check_existing_data has listed
\* nothing and decided nothing, and its task instance does not succeed.
C21_MissingCredentialRaisesFirst ==
  /\ MissingCredential(ExtractorVariables) =>
       /\ api_log = <<>> /\ api_calls = 0 /\ fetched = <<>>
       /\ \A k \in AllKeys : writes[k] = 0
       /\ pc \in {"idle", "start", "raised", "done"}
       /\ pc \in {"raised", "done"} => error \in {"KeyError", "ValueError"}
       /\ ti[ExtractTask] # "success"
  /\ MissingCredential(AwsVariables) =>
       /\ sales_objects = NoResponse /\ rental_objects = NoResponse
       /\ branch = "none" /\ xcom = {}
       /\ ti[CheckTask] # "success"

\* C21: the extraction has failed for good on an empty API key, over a bucket
\* that holds no object of the date.
C21_Witness ==
  /\ airflowVars["RENTCAST_API_KEY"] = "empty"
  /\ ti[ExtractTask] = "failed"
  /\ try_number[ExtractTask] = retries + 1
  /\ error = "ValueError"
  /\ DOMAIN s3 = {}

(***************************************************************************)
(* Claims about the branch decision                                        *)
(***************************************************************************)
\* The check has listed both prefixes of the date, and one holds no object.
FoundPartitionMissing ==
  /\ sales_objects.called /\ rental_objects.called
  /\ ~(HasContents(sales_objects) /\ HasContents(rental_objects))

\* C22: when the check of a run has found a prefix of the date without an
\* object, its decision is to extract, and once the branch task has ended
\* the extraction of that run is neither skipped nor given up: it is
\* triggered.
C22_MissingPartitionTriggersExtraction ==
  FoundPartitionMissing =>
    /\ branch = "extract_data"
    /\ Finished(CheckTask) =>
         (ti[CheckTask] = "success" /\ ti[ExtractTask] \notin {"skipped", "upstream_failed"})

\* C23: the decision the check returns is the id of a task of the DAG that
\* is directly downstream of the branch task: the schema task when it
\* decides to skip the extraction, the extraction task otherwise.
C23_DecisionNamesDownstreamTask ==
  branch # "none" =>
    /\ branch \in Downstream(CheckTask)
    /\ branch = IF HasContents(sales_objects) /\ HasContents(rental_objects)
                THEN CreateSchemaTask ELSE ExtractTask

BothWritten ==
  /\ pc \in {"returned", "done"}
  /\ DOMAIN results = {"sales_path", "rental_path"}
  /\ \A c \in DOMAIN results : results[c] # None

\* C26: after an extraction that has written both categories of its date,
\* check_existing_data for that date decides to skip the extraction, and the
\* keys written are the files the loader reads for that date.
C26_WrittenKeysAreFound ==
  BothWritten =>
    /\ CheckDecision(ListResponse(sales_prefix(ds)), ListResponse(rental_prefix(ds)))
         = "create_schema"
    /\ {results[c].key : c \in DOMAIN results} = LoaderPaths(ds)
    /\ LoaderPaths(ds) \subseteq DOMAIN s3

\* C26: the extraction has succeeded at its first attempt, having written
\* each of the two objects of its date once.
C26_Witness ==
  /\ BothWritten
  /\ ti[ExtractTask] = "success"
  /\ \A k \in KeysOf(ds) : writes[k] = 1
  /\ try_number[ExtractTask] = 1

(***************************************************************************)
(* Claims about the rows a run of the model path leaves                    *)
(***************************************************************************)
\* How often the table holds the row.
CountOf(table, r) == IF r \in Rows(table) THEN table[r] ELSE 0

\* The rows the table holds for a load date.
RowsOfDate(table, d) == {r \in Rows(table) : r.LOAD_DATE = d}

\* A step of the model path leaves the rows of the load dates it does not
\* work on as they are.
OtherDatesUntouched ==
  ppc \in {"loaded", "delete", "insert"} =>
    \A r \in Rows(pred) \cup Rows(pred') :
      (r.LOAD_DATE \notin max_load_date') => (CountOf(pred', r) = CountOf(pred, r))

\* C25: when a run of the model path has returned for the load date L, the
\* rows PREDICTED_RENT_PRICES holds for L are the records of that run, each
\* once, one for each sale listing the run fetched and all with the model
\* version it loaded; and no step of the predictor changes how often the
\* table holds a row of another load date than the one it works on.
C25_RunReplacesItsLoadDate ==
  /\ []((Succeeded /\ ppc = "returned" /\ reruns >= 1) =>
          \A d \in max_load_date :
            /\ RowsOfDate(pred, d) = {records[n] : n \in DOMAIN records}
            /\ \A r \in RowsOfDate(pred, d) : pred[r] = 1 /\ r.MODEL_VERSION \in model_version
            /\ {r.LISTING_SK : r \in RowsOfDate(pred, d)}
                 = {l.LISTING_SK : l \in ListingQuery(max_load_date)}
            /\ Cardinality(RowsOfDate(pred, d)) = Cardinality(ListingQuery(max_load_date)))
  /\ [][OtherDatesUntouched]_vars

\* C25: a second run for the same load date has returned from the model
\* path, over a registry that holds another version too, and every row of
\* the table carries the version this run loaded.
C25_Witness ==
  /\ Succeeded /\ ppc = "returned" /\ reruns = 2
  /\ records # <<>>
  /\ registry # {}
  /\ \A r \in Rows(pred) : r.MODEL_VERSION \in model_version
  /\ \E v \in VersionSet : v \notin model_version /\ \E r \in registry : r.MODEL_VERSION = v


\* ---------------------------------------------------------------------------
\* C27: in a category's fetch loop every API call is made at the offset
\* limit * (number of full pages received before it in that category), and
\* the offset the loop holds is limit * (number of full pages received so
\* far): a short page, an empty page, a non-200 answer, an unparsable body or
\* a raised request leaves it where it was.
FullPagesBefore(i) ==
  Cardinality({j \in 1..(i - 1) : FullPage(api_log[j])})

C27_OffsetCountsFullPages ==
  /\ \A i \in 1..Len(api_log) :
       api_log[i].offset = limit * FullPagesBefore(i)
  /\ offset = limit * FullPagesBefore(Len(api_log) + 1)

\* Two full pages were received and a third call, made at offset 2 * limit,
\* ended the loop without a full page.
C27_Witness ==
  /\ Len(api_log) = 3
  /\ FullPage(api_log[1]) /\ FullPage(api_log[2])
  /\ ~FullPage(api_log[3])
  /\ api_log[3].offset = 2 * limit
  /\ offset = 2 * limit


\* ---------------------------------------------------------------------------
\* C28: any two training runs that register a model register distinct
\* model_version strings, the later run a string strictly greater than the
\* earlier one; no run reuses the version of a row the registry holds.
\* Rows of different runs differ in CREATED_AT; Rank is the place of a
\* version in string order.
C28_LaterRunGreaterVersion ==
  \A r1 \in registry, r2 \in registry :
     r1.CREATED_AT < r2.CREATED_AT =>
        Rank(r1.MODEL_VERSION) < Rank(r2.MODEL_VERSION)


\* ---------------------------------------------------------------------------
\* C29: for a row of the feature store, the property_age the trainer has
\* derived for it, missing or not, is the property_age the predictor derives
\* from the same year_built.
\* The cell of a frame for a value of the trainer's frame (in hundredths).
CellOf(x) == IF x = NULL THEN NaN ELSE <<"num", CHOOSE v \in x : TRUE>>

C29_TrainerAgeIsPredictorAge ==
  tpc = "engineered" =>
    \A n \in DOMAIN df_modeling :
      LET source == feature_store[df_modeling[n].id].year_built
      IN CellOf(df_modeling[n].property_age) = AgeOf(CellOf(Hundredths(source)))


\* ---------------------------------------------------------------------------
\* C30: the row a training run registers decodes, as load_model_from_registry
\* decodes the row it selected, to the model the run fitted and the manifest
\* it built, both by the first scheme tried (gzip) and by no other.
Registers(r) == r \in registry' /\ r \notin registry

DecodesToWhatWasEncoded ==
  \A r \in registry' :
    Registers(r) =>
      /\ DecodeRow(r) = [raised |-> FALSE, model_version |-> {r.MODEL_VERSION},
                         model |-> {FittedModel}, feature_info |-> {FeatureInfo}]
      /\ Decode(r.MODEL_BLOB).tried = <<"gzip">>
      /\ Decode(r.FEATURE_INFO).tried = <<"gzip">>

====
